---- MODULE Spec2Model ----
(***************************************************************************)
(* Model of the retrieval core of youtube_analyzer: src/src/vector_store.py *)
(* (class VectorStore) and the way orchestrator.py / qa_agent.py /         *)
(* report_generator.py instantiate it.                                      *)
(*                                                                          *)
(* The ChromaDB client is the shared persisted backend: two collections     *)
(* ("reports", "transcripts"), each a set of chunk records keyed by id.     *)
(* Every VectorStore instance has its own threading.Lock; threads call      *)
(* index_report, index_transcript, retrieve_relevant_chunks,                *)
(* get_context_for_query and reindex_all_data on an instance.  A thread at  *)
(* pc "get", "delete", "add", "clear" or "query" is inside that backend     *)
(* call (it holds the lock of its instance).  The callers of the store are  *)
(* modelled with it: the _ensure_*_indexed methods of qa_agent.py, the      *)
(* analyze_transcript method of report_generator.py with its cache, and the *)
(* exit code of main.reindex_all_data.                                      *)
(***************************************************************************)
EXTENDS Integers, Sequences, FiniteSets, TLC

VARIABLES
    collections,    \* backend: collection name -> set of chunk records
    latest,         \* history: collection, video id -> chunks of the latest index call
    lastReport,     \* history: the latest completed index_report and its effect
    lock,           \* VectorStore instance -> thread holding self.lock, or NoThread
    pc,             \* thread -> position in the method it runs
    call,           \* thread -> the call it runs: [vs, op, ...arguments]
    existing,       \* thread -> existing_chunks['ids'] of the delete step
    batch,          \* thread -> the chunks (ids, documents, metadatas) it will add
    results,        \* thread -> the results list of retrieve_relevant_chunks
    ret,            \* thread -> outcome of its last finished call
    ncalls,         \* number of calls made so far
    faults,         \* history: thread -> backend calls that raised during its call
    context         \* thread -> the string get_context_for_query returns

vars == <<collections, latest, lastReport, lock, pc, call, existing, batch, results, ret,
          ncalls, faults, context>>

(***************************************************************************)
(* Bounds and domains                                                       *)
(***************************************************************************)
Threads == {"t1", "t2"}
Stores == {"vs1", "vs2"}
NoThread == "none"
Partitions == {"reports", "transcripts"}
VideoIds == {"v1", "v2"}

\* at most MaxCalls calls are made in a behaviour
MaxCalls == 3

\* chunk_size / chunk_overlap of the text splitter, scaled down from 1000 / 100
ChunkSize == 40
ChunkOverlap == 4

(***************************************************************************)
(* Text helpers                                                             *)
(***************************************************************************)
RECURSIVE JoinStr(_, _)
\* sep.join(items)
JoinStr(items, sep) ==
    IF items = <<>> THEN ""
    ELSE IF Len(items) = 1 THEN items[1]
    ELSE items[1] \o sep \o JoinStr(Tail(items), sep)

\* ["- " + x for x in items]
Bullets(items) == [i \in 1..Len(items) |-> "- " \o items[i]]

(***************************************************************************)
(* self.text_splitter: RecursiveCharacterTextSplitter(chunk_size,           *)
(* chunk_overlap, length_function=len), separators "\n\n", "\n", " ", "",   *)
(* separators kept at the start of the following piece, chunks stripped.    *)
(***************************************************************************)
Separators == <<"\n\n", "\n", " ", "">>

Contains(text, sep) ==
    \E i \in 1..(Len(text) - Len(sep) + 1) : SubSeq(text, i, i + Len(sep) - 1) = sep

IsSpace(c) == c \in {" ", "\n", "\t"}

RECURSIVE LStrip(_)
LStrip(s) ==
    IF Len(s) > 0 /\ IsSpace(SubSeq(s, 1, 1)) THEN LStrip(SubSeq(s, 2, Len(s))) ELSE s

RECURSIVE RStrip(_)
RStrip(s) ==
    IF Len(s) > 0 /\ IsSpace(SubSeq(s, Len(s), Len(s)))
    THEN RStrip(SubSeq(s, 1, Len(s) - 1)) ELSE s

Strip(s) == RStrip(LStrip(s))

RECURSIVE SplitKeep(_, _, _, _)
\* the pieces of text from position start on, split at each occurrence of sep,
\* every separator staying at the head of the piece that follows it
SplitKeep(text, sep, start, i) ==
    LET at == {j \in i..(Len(text) - Len(sep) + 1) : SubSeq(text, j, j + Len(sep) - 1) = sep}
    IN IF at = {} THEN <<SubSeq(text, start, Len(text))>>
       ELSE LET next == CHOOSE j \in at : \A k \in at : j <= k
            IN <<SubSeq(text, start, next - 1)>>
               \o SplitKeep(text, sep, next, next + Len(sep))

Chars(text) == [i \in 1..Len(text) |-> SubSeq(text, i, i)]

NonEmpty(pieces) == SelectSeq(pieces, LAMBDA s : s # "")

\* a split that never cuts
SplitWithSep_Whole(text, sep) == <<text>>

\* _split_text_with_regex(text, separator, keep_separator=True), empty pieces
\* dropped
SplitWithSep(text, sep) ==
    IF sep = "" THEN Chars(text) ELSE NonEmpty(SplitKeep(text, sep, 1, 1))

\* the summed length of the pieces; separators stay in the pieces, so this is
\* the length of the joined pieces
TotalLen(pieces) ==
    Cardinality(UNION {{<<i, j>> : j \in 1..Len(pieces[i])} : i \in 1..Len(pieces)})

\* the while loop of _merge_splits: drop leading pieces of the current chunk
\* until what is left fits the overlap and leaves room for the next piece;
\* k is the number of pieces the loop drops
PopFront(cur, total, len) ==
    LET Left(k) == total - TotalLen(SubSeq(cur, 1, k))
        Stops(k) == ~(Left(k) > ChunkOverlap \/ (Left(k) + len > ChunkSize /\ Left(k) > 0))
        k == CHOOSE n \in 0..Len(cur) : Stops(n) /\ \A j \in 0..(n - 1) : ~Stops(j)
    IN <<SubSeq(cur, k + 1, Len(cur)), Left(k)>>

\* the joined and stripped chunk, or nothing when it is empty
JoinDocs(cur) ==
    LET doc == Strip(JoinStr(cur, "")) IN IF doc = "" THEN <<>> ELSE <<doc>>

RECURSIVE MergeSplits(_, _, _, _)
\* _merge_splits: pieces are appended to the current chunk until the next one
\* (the m-th of those left) would pass the chunk size; then the chunk is
\* emitted, its front dropped down to the overlap, and the loop goes on
MergeSplits(splits, cur, total, docs) ==
    LET Over(m) == /\ Len(cur) + m - 1 > 0
                   /\ total + TotalLen(SubSeq(splits, 1, m)) > ChunkSize
        overs == {m \in 1..Len(splits) : Over(m)}
    IN IF overs = {} THEN docs \o JoinDocs(cur \o splits)
       ELSE LET m == CHOOSE n \in overs : \A j \in overs : n <= j
                d == splits[m]
                full == cur \o SubSeq(splits, 1, m - 1)
                popped == PopFront(full, total + TotalLen(SubSeq(splits, 1, m - 1)),
                                   Len(d))
            IN MergeSplits(SubSeq(splits, m + 1, Len(splits)), Append(popped[1], d),
                           popped[2] + Len(d), docs \o JoinDocs(full))

RECURSIVE SplitText(_, _)
RECURSIVE SplitPieces(_, _, _, _)

\* the loop of _split_text over the pieces: short pieces are collected and
\* merged, a piece of chunk_size or more is split again with finer separators
SplitPieces(splits, rest, good, final) ==
    IF good = <<>> /\ splits = <<>> THEN final
    ELSE IF \A i \in 1..Len(splits) : Len(splits[i]) < ChunkSize
    THEN final \o MergeSplits(good \o splits, <<>>, 0, <<>>)
    ELSE LET s == Head(splits) IN
         IF Len(s) < ChunkSize
         THEN SplitPieces(Tail(splits), rest, Append(good, s), final)
         ELSE LET flushed == IF good = <<>> THEN final
                             ELSE final \o MergeSplits(good, <<>>, 0, <<>>)
                  inner == IF rest = <<>> THEN <<s>> ELSE SplitText(s, rest)
              IN SplitPieces(Tail(splits), rest, <<>>, flushed \o inner)

SplitText(text, separators) ==
    LET found == {i \in 1..Len(separators) :
                     separators[i] = "" \/ Contains(text, separators[i])}
        k == IF found = {} THEN Len(separators)
             ELSE CHOOSE i \in found : \A j \in found : i <= j
        sep == separators[k]
        rest == IF sep = "" THEN <<>> ELSE SubSeq(separators, k + 1, Len(separators))
    IN SplitPieces(SplitWithSep(text, sep), rest, <<>>, <<>>)

\* self.text_splitter.split_text(text)
split_text(text) == SplitText(text, Separators)

(***************************************************************************)
(* Inputs: reports, transcripts and queries                                 *)
(***************************************************************************)
TitleOf(v) == IF v = "v1" THEN "T" ELSE "U"

\* the analysis mappings a report may carry (a report may also have none)
Analyses ==
    { [key_points |-> <<"A">>],
      [key_points |-> <<"A", "Z">>, overall_summary |-> "S"] }

\* the reports handed to index_report: for v1 a report without analysis and
\* one with each analysis (one chunk, one chunk, two chunks), for v2 one report
Reports ==
    { [video_id |-> v, video_title |-> TitleOf(v)] : v \in VideoIds }
    \cup { [video_id |-> "v1", video_title |-> TitleOf("v1"), analysis |-> a] :
              a \in Analyses }

\* reports with every optional field, with some of them (one an empty list),
\* with a channel and no analysis
RichReports ==
    { [video_id |-> "v1", video_title |-> TitleOf("v1"), channel_title |-> "C",
       analysis |-> [main_topics |-> <<"m", "n">>, key_points |-> <<"k">>,
                     important_facts |-> <<"f">>, technical_details |-> <<"d">>,
                     examples_and_stories |-> <<"e">>, important_segments |-> <<"g">>,
                     detailed_summary |-> "D", overall_summary |-> "S"]],
      [video_id |-> "v1", video_title |-> TitleOf("v1"),
       analysis |-> [overall_summary |-> "S", technical_details |-> <<>>,
                     main_topics |-> <<"m">>]],
      [video_id |-> "v2", video_title |-> TitleOf("v2"),
       analysis |-> [important_segments |-> <<"g", "h">>, key_points |-> <<>>,
                     examples_and_stories |-> <<"e">>]],
      [video_id |-> "v2", video_title |-> TitleOf("v2"), channel_title |-> "C"] }

\* reports that lack an identifying field
MalformedReports == { [video_id |-> "v1"], [video_title |-> TitleOf("v1")] }

\* transcript texts: empty, one chunk, two chunks
TranscriptTexts == {"", "hello", "word word word word word word word word word"}

\* texts for the splitter: empty, blank, shorter than the chunk size (plain,
\* padded, with a paragraph break), and longer than it (without any separator,
\* with spaces, with line and paragraph breaks)
ChunkTexts ==
    {"", " ", " \n\n ", "hello", "  hi  ", "one\n\ntwo",
     "0123456789012345678901234567890123456789012345678901234",
     "word word word word word word word word word",
     "first line of the text\nsecond line of it\n\nsecond paragraph, longer than a chunk is, goes on"}

\* the (video_id, transcript_text) pairs handed to index_transcript
Transcripts ==
    {<<"v1", text>> : text \in TranscriptTexts} \cup {<<"v2", "hello">>}

\* "field in rec" for a dict
Has(rec, field) == field \in DOMAIN rec

\* a file <video_id>_report.json of the data directory and its content
ReportFile(report) == [video_id |-> report.video_id, report |-> report]

\* contents of the data directory: the *_report.json files in the order of
\* os.listdir, and the <video_id>_transcript.txt files as (video_id, text).
\* The transcript file is written when the transcript is fetched, the report
\* file only after the analysis, so a transcript can be there without a report
DataDirs ==
    LET r1 == [video_id |-> "v1", video_title |-> TitleOf("v1"),
               analysis |-> [key_points |-> <<"A", "Z">>, overall_summary |-> "S"]]
        r2 == [video_id |-> "v2", video_title |-> TitleOf("v2")]
    IN { [reports |-> <<>>, transcripts |-> {}],
         [reports |-> <<ReportFile(r1)>>, transcripts |-> {<<"v1", "hello">>}],
         [reports |-> <<ReportFile(r1), ReportFile(r2)>>,
          transcripts |-> {<<"v1", "">>,
                           <<"v2", "word word word word word word word word word">>}],
         [reports |-> <<ReportFile(r2)>>, transcripts |-> {<<"v1", "hello">>}] }

\* a file <video_id>_report.json that json.load cannot read
UnreadableFile(video_id) == [video_id |-> video_id]

\* open and json.load succeed for the file
Readable(file) == Has(file, "report")

\* data directories with a report file that cannot be read, after a readable
\* one and before one
FaultyDataDirs ==
    LET r1 == [video_id |-> "v1", video_title |-> TitleOf("v1")]
        r2 == [video_id |-> "v2", video_title |-> TitleOf("v2")]
    IN { [reports |-> <<ReportFile(r1), UnreadableFile("v2")>>,
          transcripts |-> {<<"v2", "hello">>}],
         [reports |-> <<UnreadableFile("v1"), ReportFile(r2)>>,
          transcripts |-> {<<"v1", "hello">>, <<"v2", "hello">>}] }

Queries == {"Z"}

\* n_results: 1 (qa_agent), 10 (the default), 15 (get_context_for_query)
NResultsEnsure == 1
NResultsDefault == 10
NResultsContext == 15

\* the video_ids argument: None, or a list of ids
None == [is_none |-> TRUE, ids |-> <<>>]
List(ids) == [is_none |-> FALSE, ids |-> ids]
Filters == {None, List(<<>>), List(<<"v1">>)}


(***************************************************************************)
(* _generate_chunk_id                                                       *)
(***************************************************************************)
\* an id built without the separators
_generate_chunk_id_Joined(video_id, index, total) ==
    video_id \o "_" \o ToString(index) \o ToString(total)

_generate_chunk_id(video_id, index, total) ==
    video_id \o "_chunk_" \o ToString(index) \o "_of_" \o ToString(total)

(***************************************************************************)
(* index_report, lines 130-195: sections, combined text, chunks, metadata   *)
(***************************************************************************)
AnalysisSections(analysis) ==
       (IF Has(analysis, "main_topics")
        THEN <<"Main topics: " \o JoinStr(analysis.main_topics, ", ")>> ELSE <<>>)
    \o (IF Has(analysis, "key_points")
        THEN <<"Key points:\n" \o JoinStr(Bullets(analysis.key_points), "\n")>>
        ELSE <<>>)
    \o (IF Has(analysis, "important_facts")
        THEN <<"Important facts:\n" \o JoinStr(Bullets(analysis.important_facts), "\n")>>
        ELSE <<>>)
    \o (IF Has(analysis, "technical_details") /\ analysis.technical_details # <<>>
        THEN <<"Technical details:\n"
               \o JoinStr(Bullets(analysis.technical_details), "\n")>>
        ELSE <<>>)
    \o (IF Has(analysis, "examples_and_stories") /\ analysis.examples_and_stories # <<>>
        THEN <<"Examples and stories:\n"
               \o JoinStr(Bullets(analysis.examples_and_stories), "\n")>>
        ELSE <<>>)
    \o (IF Has(analysis, "important_segments") /\ analysis.important_segments # <<>>
        THEN <<"Important segments:\n"
               \o JoinStr(Bullets(analysis.important_segments), "\n")>>
        ELSE <<>>)
    \o (IF Has(analysis, "detailed_summary")
        THEN <<"Detailed summary: " \o analysis.detailed_summary>> ELSE <<>>)
    \o (IF Has(analysis, "overall_summary")
        THEN <<"Overall summary: " \o analysis.overall_summary>> ELSE <<>>)

\* sections that begin with the channel
ReportSections_ChannelFirst(report) ==
       (IF Has(report, "channel_title")
        THEN <<"Channel: " \o report.channel_title>> ELSE <<>>)
    \o <<"Video title: " \o report.video_title>>
    \o (IF Has(report, "analysis") THEN AnalysisSections(report.analysis) ELSE <<>>)

\* lines 131-175: the sections list
ReportSections(report) ==
       <<"Video title: " \o report.video_title>>
    \o (IF Has(report, "channel_title")
        THEN <<"Channel: " \o report.channel_title>> ELSE <<>>)
    \o (IF Has(report, "analysis") THEN AnalysisSections(report.analysis) ELSE <<>>)

combined_text(report) == JoinStr(ReportSections(report), "\n\n")

\* the ids / documents / metadatas lists built by the enumerate loop, as one
\* sequence of chunk records (chunk_index is 0-based)
BuildBatch(video_id, video_title, chunks, type) ==
    [k \in 1..Len(chunks) |->
        [id |-> _generate_chunk_id(video_id, k - 1, Len(chunks)),
         document |-> chunks[k],
         metadata |-> [video_id |-> video_id,
                       video_title |-> video_title,
                       chunk_index |-> k - 1,
                       total_chunks |-> Len(chunks),
                       type |-> type]]]

ReportBatch(report) ==
    BuildBatch(report.video_id, report.video_title,
               split_text(combined_text(report)), "report")

TranscriptBatch(video_id, video_title, transcript_text) ==
    BuildBatch(video_id, video_title, split_text(transcript_text), "transcript")

Range(seq) == {seq[i] : i \in 1..Len(seq)}

(***************************************************************************)
(* The ChromaDB collection operations the code calls                        *)
(***************************************************************************)
\* a get that finds only the first chunk of the document
CollectionGet_FirstOnly(coll, video_id) ==
    {c \in coll : c.metadata.video_id = video_id /\ c.metadata.chunk_index = 0}

\* collection.get(where={"video_id": video_id}): the matching records
CollectionGet(coll, video_id) == {c \in coll : c.metadata.video_id = video_id}

\* existing_chunks['ids']
Ids(chunks) == {c.id : c \in chunks}

\* a delete that removes nothing
CollectionDelete_Keeps(coll, ids) == coll

\* a delete that ignores the ids and empties the collection
CollectionDelete_All(coll, ids) == {}

\* collection.delete(ids=ids)
CollectionDelete(coll, ids) == {c \in coll : c.id \notin ids}

\* collection.add(documents, ids, metadatas) refuses an empty batch
AddRejects(chunks) == chunks = <<>>

\* ids of the batch that the collection already holds
Duplicates(coll, chunks) == {c.id : c \in Range(chunks)} \cap {c.id : c \in coll}

\* collection.add for a batch it accepts: records whose id is already present
\* are not written again
CollectionAdd(coll, chunks) ==
    coll \cup {c \in Range(chunks) : c.id \notin {x.id : x \in coll}}

(***************************************************************************)
(* The embedding function and collection.query                              *)
(***************************************************************************)
\* stand-in for the sentence-transformer embedding: a one-dimensional vector
Embed(text) == Len(text)

\* squared L2 distance of the embeddings
Distance(query, document) ==
    (Embed(query) - Embed(document)) * (Embed(query) - Embed(document))

\* a where clause that is never built
WhereClause_Never(video_ids) == [is_none |-> TRUE, ids |-> <<>>]

\* "if video_ids:" is false for None and for the empty list
Truthy(video_ids) == ~video_ids.is_none /\ video_ids.ids # <<>>

\* where=where_clause if where_clause else None: {"video_id": {"$in": video_ids}},
\* or no where clause
WhereClause(video_ids) == IF Truthy(video_ids) THEN video_ids ELSE None

Matches(c, where) == where.is_none \/ c.metadata.video_id \in Range(where.ids)

RECURSIVE Nearest(_, _, _)
\* the n nearest chunks of set S to the query, nearest first
Nearest(S, query, n) ==
    IF S = {} \/ n = 0 THEN <<>>
    ELSE LET best == CHOOSE c \in S : \A d \in S :
                        \/ Distance(query, c.document) < Distance(query, d.document)
                        \/ /\ Distance(query, c.document) = Distance(query, d.document)
                           /\ c.metadata.chunk_index <= d.metadata.chunk_index
         IN <<best>> \o Nearest(S \ {best}, query, n - 1)

\* collection.query(query_texts=[query], n_results=n, where=where), as the list
\* of (document, metadata, distance) hits
CollectionQuery(coll, query, n, where) ==
    LET hits == Nearest({c \in coll : Matches(c, where)}, query, n)
    IN [i \in 1..Len(hits) |->
           [chunk |-> hits[i].document,
            metadata |-> hits[i].metadata,
            distance |-> Distance(query, hits[i].document)]]

\* a processing that labels every hit as a report hit
Processed_Mislabelled(hits, source) ==
    [i \in 1..Len(hits) |->
        [chunk |-> hits[i].chunk, metadata |-> hits[i].metadata,
         distance |-> hits[i].distance, source |-> "report"]]

\* lines 297-308 / 322-333: the hits appended to results with their source
Processed(hits, source) ==
    [i \in 1..Len(hits) |->
        [chunk |-> hits[i].chunk, metadata |-> hits[i].metadata,
         distance |-> hits[i].distance, source |-> source]]

RECURSIVE InsertSorted(_, _)
InsertSorted(sorted, r) ==
    IF sorted = <<>> THEN <<r>>
    ELSE IF r.distance < Head(sorted).distance THEN <<r>> \o sorted
    ELSE <<Head(sorted)>> \o InsertSorted(Tail(sorted), r)

RECURSIVE SortByDistance(_)
\* results.sort(key=lambda x: x['distance']) (a stable sort)
SortByDistance(rs) ==
    IF rs = <<>> THEN <<>>
    ELSE InsertSorted(SortByDistance(SubSeq(rs, 1, Len(rs) - 1)), rs[Len(rs)])

(***************************************************************************)
(* State                                                                    *)
(***************************************************************************)
NoCall == [op |-> "none"]
\* latest: no index call for the document has finished yet, the latest one
\* raised, or the latest one returned after adding these chunks
Never == [state |-> "never", chunks |-> {}]
Unknown == [state |-> "raised", chunks |-> {}]
Returned(chunks) == [state |-> "returned", chunks |-> chunks]

\* lastReport: no index_report call has returned, or the latest one indexed
\* report and left the reports collection as snap; repeated when the call
\* before it indexed the same report and had left the collection as prev
NoReport == [valid |-> FALSE]

Init ==
    /\ collections = [p \in Partitions |-> {}]
    /\ latest = [p \in Partitions |-> [v \in VideoIds |-> Never]]
    /\ lastReport = NoReport
    /\ lock = [s \in Stores |-> NoThread]
    /\ pc = [t \in Threads |-> "idle"]
    /\ call = [t \in Threads |-> NoCall]
    /\ existing = [t \in Threads |-> {}]
    /\ batch = [t \in Threads |-> <<>>]
    /\ results = [t \in Threads |-> <<>>]
    /\ ret = [t \in Threads |-> "none"]
    /\ ncalls = 0
    /\ faults = [t \in Threads |-> {}]
    /\ context = [t \in Threads |-> ""]

IsIndex(t) == call[t].op \in {"index_report", "index_transcript"}

\* the collection an index call works on
Target(t) == IF call[t].op = "index_report" THEN "reports" ELSE "transcripts"

\* the document id of an index call
VideoIdOf(t) ==
    IF call[t].op = "index_report" THEN call[t].report.video_id ELSE call[t].video_id

\* the chunks a document has in a collection
DocChunks(p, v) == {c \in collections[p] : c.metadata.video_id = v}

\* lines 130-195 / 232-249: the batch an index call builds between its two
\* lock scopes
PreparedBatch(t) ==
    IF call[t].op = "index_report" THEN ReportBatch(call[t].report)
    ELSE TranscriptBatch(call[t].video_id, call[t].video_title, call[t].transcript_text)

AllIdle == \A t \in Threads : pc[t] = "idle"

\* the call runs inside reindex_all_data, which catches what it raises
Nested(t) == Has(call[t], "outer")

\* where a call ends: back in its caller, or back in the loop of reindex_all_data
EndPc(t) == IF Nested(t) THEN "resume" ELSE "done"

\* line 134: report['video_title'] raises KeyError for a report without it
BuildRaises(t) == call[t].op = "index_report" /\ ~Has(call[t].report, "video_title")

\* a VectorStore without mutual exclusion
LockFree_NoLock(t) == TRUE

\* self.lock, the threading.Lock of the instance the thread calls, is free
LockFree(t) == lock[call[t].vs] = NoThread

(***************************************************************************)
(* Calls                                                                    *)
(***************************************************************************)
\* a thread calls index_report(report) on VectorStore instance s
CallIndexReport(t, s) ==
    /\ pc[t] = "idle"
    /\ ncalls < MaxCalls
    /\ ncalls' = ncalls + 1
    /\ \E report \in Reports :
          call' = [call EXCEPT ![t] = [op |-> "index_report", vs |-> s,
                                       report |-> report]]
    /\ pc' = [pc EXCEPT ![t] = "del_lock"]
    /\ ret' = [ret EXCEPT ![t] = "none"]
    /\ UNCHANGED <<collections, latest, lastReport, lock, existing, batch, results,
                 faults, context>>

\* a thread calls index_transcript(video_id, video_title, transcript_text)
CallIndexTranscript(t, s) ==
    /\ pc[t] = "idle"
    /\ ncalls < MaxCalls
    /\ ncalls' = ncalls + 1
    /\ \E tr \in Transcripts :
          call' = [call EXCEPT ![t] = [op |-> "index_transcript", vs |-> s,
                                       video_id |-> tr[1], video_title |-> TitleOf(tr[1]),
                                       transcript_text |-> tr[2]]]
    /\ pc' = [pc EXCEPT ![t] = "del_lock"]
    /\ ret' = [ret EXCEPT ![t] = "none"]
    /\ UNCHANGED <<collections, latest, lastReport, lock, existing, batch, results,
                 faults, context>>

\* a thread calls retrieve_relevant_chunks(query, n_results, include_reports,
\* include_transcripts, video_ids); with both flags false it returns [] at once
CallRetrieve(t, s) ==
    /\ pc[t] = "idle"
    /\ ncalls < MaxCalls
    /\ ncalls' = ncalls + 1
    /\ \E q \in Queries, n \in {NResultsDefault},
          ir \in BOOLEAN, it \in BOOLEAN, ids \in Filters :
          /\ call' = [call EXCEPT ![t] = [op |-> "retrieve", vs |-> s, query |-> q,
                                          n_results |-> n, include_reports |-> ir,
                                          include_transcripts |-> it,
                                          video_ids |-> ids]]
          /\ pc' = [pc EXCEPT ![t] = IF ir THEN "r_lock"
                                     ELSE IF it THEN "t_lock" ELSE "done"]
          /\ ret' = [ret EXCEPT ![t] = IF ir \/ it THEN "none" ELSE "ok"]
    /\ UNCHANGED <<collections, latest, lastReport, lock, existing, batch, results,
                 faults, context>>

(***************************************************************************)
(* index_report / index_transcript                                          *)
(***************************************************************************)
\* "with self.lock:" of the delete step
AcquireForDelete(t) ==
    /\ pc[t] = "del_lock"
    /\ LockFree(t)
    /\ lock' = [lock EXCEPT ![call[t].vs] = t]
    /\ pc' = [pc EXCEPT ![t] = "get"]
    /\ UNCHANGED <<collections, latest, lastReport, call, existing, batch, results, ret, ncalls,
                 faults, context>>

\* the lock scope of the delete step ends and lines 130-195 / 232-249 build
\* the batch, or raise for a report without video_title
LeaveDeleteStep(t) ==
    /\ lock' = [lock EXCEPT ![call[t].vs] = NoThread]
    /\ IF BuildRaises(t)
       THEN /\ pc' = [pc EXCEPT ![t] = EndPc(t)]
            /\ ret' = [ret EXCEPT ![t] = "raised"]
            /\ latest' = [latest EXCEPT ![Target(t)][VideoIdOf(t)] = Unknown]
            /\ lastReport' = NoReport
            /\ UNCHANGED batch
       ELSE /\ pc' = [pc EXCEPT ![t] = "add_lock"]
            /\ batch' = [batch EXCEPT ![t] = PreparedBatch(t)]
            /\ UNCHANGED <<ret, latest, lastReport>>

\* collection.get(where={"video_id": video_id}); with nothing to delete the
\* lock scope ends and the batch is built
Get(t) ==
    /\ pc[t] = "get"
    /\ LET found == CollectionGet(collections[Target(t)], VideoIdOf(t)) IN
          /\ existing' = [existing EXCEPT ![t] = found]
          /\ IF Ids(found) # {}
             THEN /\ pc' = [pc EXCEPT ![t] = "delete"]
                  /\ UNCHANGED <<lock, batch, ret, latest, lastReport>>
             ELSE LeaveDeleteStep(t)
    /\ UNCHANGED <<collections, call, results, ncalls, faults, context>>

\* collection.delete(ids=existing_chunks['ids']), the end of the lock scope,
\* and the building of the batch
Delete(t) ==
    /\ pc[t] = "delete"
    /\ collections' = [collections EXCEPT
          ![Target(t)] = CollectionDelete(@, Ids(existing[t]))]
    /\ LeaveDeleteStep(t)
    /\ UNCHANGED <<call, existing, results, ncalls, faults, context>>

\* "with self.lock:" of the add step
AcquireForAdd(t) ==
    /\ pc[t] = "add_lock"
    /\ LockFree(t)
    /\ lock' = [lock EXCEPT ![call[t].vs] = t]
    /\ pc' = [pc EXCEPT ![t] = "add"]
    /\ UNCHANGED <<collections, latest, lastReport, call, existing, batch, results, ret, ncalls,
                 faults, context>>

\* the outcomes of collection.add: it raises on an empty batch; for an id that
\* is already present it raises or leaves the stored record alone, depending
\* on the ChromaDB version
AddRaises(coll, chunks) ==
    IF AddRejects(chunks) THEN {TRUE}
    ELSE IF Duplicates(coll, chunks) # {} THEN {TRUE, FALSE}
    ELSE {FALSE}

\* collection.add(documents=chunks, ids=ids, metadatas=metadatas) and the end
\* of the call: it returns, or the exception of add leaves it
Add(t) ==
    /\ pc[t] = "add"
    /\ \E raises \in AddRaises(collections[Target(t)], batch[t]) :
          LET after == IF raises THEN collections[Target(t)]
                       ELSE CollectionAdd(collections[Target(t)], batch[t])
          IN /\ collections' = [collections EXCEPT ![Target(t)] = after]
             /\ ret' = [ret EXCEPT ![t] = IF raises THEN "raised" ELSE "ok"]
             /\ latest' = [latest EXCEPT ![Target(t)][VideoIdOf(t)] =
                              IF raises THEN Unknown ELSE Returned(Range(batch[t]))]
             /\ lastReport' =
                   IF call[t].op # "index_report" THEN lastReport
                   ELSE IF raises THEN NoReport
                   ELSE LET again == /\ lastReport.valid
                                     /\ lastReport.report = call[t].report
                        IN [valid |-> TRUE, report |-> call[t].report,
                            snap |-> after, repeated |-> again,
                            prev |-> IF again THEN lastReport.snap ELSE {}]
             /\ faults' = [faults EXCEPT ![t] = IF raises THEN @ \cup {"add"} ELSE @]
    /\ lock' = [lock EXCEPT ![call[t].vs] = NoThread]
    /\ pc' = [pc EXCEPT ![t] = EndPc(t)]
    /\ UNCHANGED <<call, existing, batch, results, ncalls, context>>

(***************************************************************************)
(* retrieve_relevant_chunks                                                 *)
(***************************************************************************)
\* "with self.lock:" around reports_collection.query
AcquireForReportsQuery(t) ==
    /\ pc[t] = "r_lock"
    /\ LockFree(t)
    /\ lock' = [lock EXCEPT ![call[t].vs] = t]
    /\ pc' = [pc EXCEPT ![t] = "r_query"]
    /\ UNCHANGED <<collections, latest, lastReport, call, existing, batch, results, ret, ncalls,
                 faults, context>>

\* "with self.lock:" around transcripts_collection.query
AcquireForTranscriptsQuery(t) ==
    /\ pc[t] = "t_lock"
    /\ LockFree(t)
    /\ lock' = [lock EXCEPT ![call[t].vs] = t]
    /\ pc' = [pc EXCEPT ![t] = "t_query"]
    /\ UNCHANGED <<collections, latest, lastReport, call, existing, batch, results, ret, ncalls,
                 faults, context>>

\* the hits of one collection for the call of thread t
Hits(t, p) ==
    CollectionQuery(collections[p], call[t].query, call[t].n_results,
                    WhereClause(call[t].video_ids))

\* a return without the sort
Finish_Unsorted(rs) == rs

\* lines 335-339: sort the merged list and return it
Finish(rs) == IF rs # <<>> THEN SortByDistance(rs) ELSE rs

\* the methods of QAAgent that ask whether a document is indexed
EnsureOps == {"ensure_report", "ensure_transcript"}

\* where retrieve_relevant_chunks returns to: its caller, line 361 of
\* get_context_for_query, or the test of _ensure_report_indexed /
\* _ensure_transcript_indexed
RetrievePc(t) ==
    IF call[t].op = "get_context" THEN "format"
    ELSE IF call[t].op \in EnsureOps THEN "ensure" ELSE "done"
RetrieveRet(t) ==
    IF call[t].op = "get_context" \/ call[t].op \in EnsureOps THEN "none" ELSE "ok"

\* reports_collection.query and the processing of its hits; the call returns
\* here when transcripts are not included
QueryReports(t) ==
    /\ pc[t] = "r_query"
    /\ LET found == results[t] \o Processed(Hits(t, "reports"), "report") IN
          IF call[t].include_transcripts
          THEN /\ results' = [results EXCEPT ![t] = found]
               /\ pc' = [pc EXCEPT ![t] = "t_lock"]
               /\ UNCHANGED ret
          ELSE /\ results' = [results EXCEPT ![t] = Finish(found)]
               /\ pc' = [pc EXCEPT ![t] = RetrievePc(t)]
               /\ ret' = [ret EXCEPT ![t] = RetrieveRet(t)]
    /\ lock' = [lock EXCEPT ![call[t].vs] = NoThread]
    /\ UNCHANGED <<collections, latest, lastReport, call, existing, batch, ncalls, faults, context>>

\* transcripts_collection.query, the processing of its hits, the sort and the
\* return
QueryTranscripts(t) ==
    /\ pc[t] = "t_query"
    /\ results' = [results EXCEPT ![t] =
          Finish(results[t] \o Processed(Hits(t, "transcripts"), "transcript"))]
    /\ pc' = [pc EXCEPT ![t] = RetrievePc(t)]
    /\ ret' = [ret EXCEPT ![t] = RetrieveRet(t)]
    /\ lock' = [lock EXCEPT ![call[t].vs] = NoThread]
    /\ UNCHANGED <<collections, latest, lastReport, call, existing, batch, ncalls, faults, context>>

(***************************************************************************)
(* Malformed reports and backend failures                                   *)
(***************************************************************************)
\* a thread calls index_report with a report that lacks video_id (line 112
\* raises KeyError) or video_title (line 134 will)
CallIndexReportMalformed(t, s) ==
    /\ pc[t] = "idle"
    /\ ncalls < MaxCalls
    /\ ncalls' = ncalls + 1
    /\ \E report \in MalformedReports :
          /\ call' = [call EXCEPT ![t] = [op |-> "index_report", vs |-> s,
                                          report |-> report]]
          /\ pc' = [pc EXCEPT ![t] = IF Has(report, "video_id") THEN "del_lock"
                                     ELSE "done"]
          /\ ret' = [ret EXCEPT ![t] = IF Has(report, "video_id") THEN "none"
                                       ELSE "raised"]
    /\ UNCHANGED <<collections, latest, lastReport, lock, existing, batch, results,
                 faults, context>>

\* an exception leaves index_report / index_transcript: the lock is released
IndexRaises(t) ==
    /\ lock' = [lock EXCEPT ![call[t].vs] = NoThread]
    /\ pc' = [pc EXCEPT ![t] = EndPc(t)]
    /\ ret' = [ret EXCEPT ![t] = "raised"]
    /\ latest' = [latest EXCEPT ![Target(t)][VideoIdOf(t)] = Unknown]
    /\ lastReport' = IF call[t].op = "index_report" THEN NoReport ELSE lastReport
    /\ UNCHANGED batch

\* collection.get of the delete step raises: the except clause prints a
\* warning and the method goes on
GetFails(t) ==
    /\ pc[t] = "get"
    /\ faults' = [faults EXCEPT ![t] = @ \cup {"get"}]
    /\ LeaveDeleteStep(t)
    /\ UNCHANGED <<collections, call, existing, results, ncalls, context>>

\* collection.delete of the delete step raises and has removed nothing: the
\* except clause prints a warning and the method goes on
DeleteFails(t) ==
    /\ pc[t] = "delete"
    /\ faults' = [faults EXCEPT ![t] = @ \cup {"delete"}]
    /\ LeaveDeleteStep(t)
    /\ UNCHANGED <<collections, call, existing, results, ncalls, context>>

\* collection.add raises (the embedding or the backend fails) and has written
\* nothing
AddFails(t) ==
    /\ pc[t] = "add"
    /\ faults' = [faults EXCEPT ![t] = @ \cup {"add"}]
    /\ IndexRaises(t)
    /\ UNCHANGED <<collections, call, existing, results, ncalls, context>>

\* a retrieval that turns the exception into the list it has so far
RetrieveRaises_Swallowed(t) ==
    /\ results' = [results EXCEPT ![t] = Finish(results[t])]
    /\ pc' = [pc EXCEPT ![t] = RetrievePc(t)]
    /\ ret' = [ret EXCEPT ![t] = RetrieveRet(t)]

\* an exception leaves retrieve_relevant_chunks, and get_context_for_query
\* when that is the caller: nothing is returned
RetrieveRaises(t) ==
    /\ results' = [results EXCEPT ![t] = <<>>]
    /\ pc' = [pc EXCEPT ![t] = "done"]
    /\ ret' = [ret EXCEPT ![t] = "raised"]

\* reports_collection.query raises
QueryReportsFails(t) ==
    /\ pc[t] = "r_query"
    /\ faults' = [faults EXCEPT ![t] = @ \cup {"query_reports"}]
    /\ lock' = [lock EXCEPT ![call[t].vs] = NoThread]
    /\ RetrieveRaises(t)
    /\ UNCHANGED <<collections, latest, lastReport, call, existing, batch, ncalls, context>>

\* transcripts_collection.query raises
QueryTranscriptsFails(t) ==
    /\ pc[t] = "t_query"
    /\ faults' = [faults EXCEPT ![t] = @ \cup {"query_transcripts"}]
    /\ lock' = [lock EXCEPT ![call[t].vs] = NoThread]
    /\ RetrieveRaises(t)
    /\ UNCHANGED <<collections, latest, lastReport, call, existing, batch, ncalls, context>>

(***************************************************************************)
(* get_context_for_query                                                    *)
(***************************************************************************)
\* a thread calls get_context_for_query(query, video_ids), which calls
\* retrieve_relevant_chunks with n_results=15 and both collections included
CallGetContext(t, s) ==
    /\ pc[t] = "idle"
    /\ ncalls < MaxCalls
    /\ ncalls' = ncalls + 1
    /\ \E q \in Queries, ids \in Filters :
          call' = [call EXCEPT ![t] = [op |-> "get_context", vs |-> s, query |-> q,
                                       n_results |-> NResultsContext,
                                       include_reports |-> TRUE,
                                       include_transcripts |-> TRUE,
                                       video_ids |-> ids]]
    /\ pc' = [pc EXCEPT ![t] = "r_lock"]
    /\ ret' = [ret EXCEPT ![t] = "none"]
    /\ UNCHANGED <<collections, latest, lastReport, lock, existing, batch, results,
                 faults, context>>

NoInformation == "No relevant information found."
ContextHeader == "Information from analyzed videos:\n\n"
\* "-"*50
Dashes == "--------------------------------------------------"

RECURSIVE FirstSeen(_, _)
\* the keys of organized_chunks in insertion order: the video ids of the
\* chunks in the order of their first appearance
FirstSeen(chunks, seen) ==
    IF chunks = <<>> THEN <<>>
    ELSE LET v == Head(chunks).metadata.video_id IN
         IF v \in seen THEN FirstSeen(Tail(chunks), seen)
         ELSE <<v>> \o FirstSeen(Tail(chunks), seen \cup {v})

\* organized_chunks[video_id]['reports'] and ['transcripts']
ReportChunks(chunks, v) ==
    SelectSeq(chunks, LAMBDA x : x.metadata.video_id = v /\ x.source = "report")
TranscriptChunks(chunks, v) ==
    SelectSeq(chunks, LAMBDA x : x.metadata.video_id = v /\ x.source # "report")

\* organized_chunks[video_id]['title']: the title of the first chunk of the video
TitleIn(chunks, v) ==
    SelectSeq(chunks, LAMBDA x : x.metadata.video_id = v)[1].metadata.video_title

RECURSIVE ReportLines(_)
ReportLines(cs) ==
    IF cs = <<>> THEN "" ELSE Head(cs).chunk \o "\n" \o ReportLines(Tail(cs))

RECURSIVE ExcerptLines(_, _)
ExcerptLines(cs, i) ==
    IF cs = <<>> THEN ""
    ELSE "Excerpt " \o ToString(i + 1) \o ": " \o Head(cs).chunk \o "\n"
         \o ExcerptLines(Tail(cs), i + 1)

\* the first line of the block of a video
VideoLine(title, v) == "Video: " \o title \o " (ID: " \o v \o ")\n"

\* lines 388-402: the block of one video
VideoBlock(chunks, v) ==
    VideoLine(TitleIn(chunks, v), v)
    \o (IF ReportChunks(chunks, v) # <<>>
        THEN "\nReport analysis:\n" \o ReportLines(ReportChunks(chunks, v)) ELSE "")
    \o (IF TranscriptChunks(chunks, v) # <<>>
        THEN "\nTranscript excerpts:\n" \o ExcerptLines(TranscriptChunks(chunks, v), 0)
        ELSE "")
    \o "\n" \o Dashes \o "\n"

RECURSIVE VideoBlocks(_, _)
VideoBlocks(chunks, order) ==
    IF order = <<>> THEN ""
    ELSE VideoBlock(chunks, Head(order)) \o VideoBlocks(chunks, Tail(order))

\* a formatting that returns the empty string for no chunks
FormatContext_EmptyString(chunks) ==
    IF chunks = <<>> THEN ""
    ELSE ContextHeader \o VideoBlocks(chunks, FirstSeen(chunks, {}))

\* a formatting without the grouping: one block per chunk
FormatContext_PerChunk(chunks) ==
    IF chunks = <<>> THEN NoInformation
    ELSE ContextHeader
         \o VideoBlocks(chunks, [i \in 1..Len(chunks) |-> chunks[i].metadata.video_id])

\* lines 361-404: the sentinel for no chunks, else the header and one block
\* per video
FormatContext(chunks) ==
    IF chunks = <<>> THEN NoInformation
    ELSE ContextHeader \o VideoBlocks(chunks, FirstSeen(chunks, {}))

\* get_context_for_query formats the chunks retrieve_relevant_chunks returned
Format(t) ==
    /\ pc[t] = "format"
    /\ context' = [context EXCEPT ![t] = FormatContext(results[t])]
    /\ pc' = [pc EXCEPT ![t] = "done"]
    /\ ret' = [ret EXCEPT ![t] = "ok"]
    /\ UNCHANGED <<collections, latest, lastReport, lock, call, existing, batch, results,
                 ncalls, faults>>

(***************************************************************************)
(* reindex_all_data                                                         *)
(***************************************************************************)
\* the local variable report of reindex_all_data: not assigned yet, or the
\* report json.load returned last
Unbound == [bound |-> FALSE]
Bound(report) == [bound |-> TRUE, report |-> report]

\* a thread calls reindex_all_data() while the data directory holds dir; the
\* call record keeps the files still to visit, the local variable report and
\* whether an except clause has printed an error
CallReindexAll(t, s) ==
    /\ pc[t] = "idle"
    /\ ncalls < MaxCalls
    /\ ncalls' = ncalls + 1
    /\ \E dir \in DataDirs :
          call' = [call EXCEPT ![t] = [op |-> "reindex_all", vs |-> s, dir |-> dir,
                                       todo |-> dir.reports, loaded |-> Unbound,
                                       failed |-> FALSE]]
    /\ pc' = [pc EXCEPT ![t] = "clear_lock"]
    /\ ret' = [ret EXCEPT ![t] = "none"]
    /\ UNCHANGED <<collections, latest, lastReport, lock, existing, batch, results,
                 faults, context>>

\* "with self.lock:" of the clearing
AcquireForClear(t) ==
    /\ pc[t] = "clear_lock"
    /\ LockFree(t)
    /\ lock' = [lock EXCEPT ![call[t].vs] = t]
    /\ pc' = [pc EXCEPT ![t] = "clear"]
    /\ UNCHANGED <<collections, latest, lastReport, call, existing, batch, results, ret,
                 ncalls, faults, context>>

\* collection.get() and collection.delete(ids=...) for both collections
Clear(t) ==
    /\ pc[t] = "clear"
    /\ collections' = [p \in Partitions |->
                          CollectionDelete(collections[p], Ids(collections[p]))]
    /\ latest' = [p \in Partitions |-> [v \in VideoIds |-> Never]]
    /\ lastReport' = NoReport
    /\ lock' = [lock EXCEPT ![call[t].vs] = NoThread]
    /\ pc' = [pc EXCEPT ![t] = "scan"]
    /\ UNCHANGED <<call, existing, batch, results, ret, ncalls, faults, context>>

\* a thread calls reindex_all_data() while the data directory holds a report
\* file that cannot be read
CallReindexAllFaulty(t, s) ==
    /\ pc[t] = "idle"
    /\ ncalls < MaxCalls
    /\ ncalls' = ncalls + 1
    /\ \E dir \in FaultyDataDirs :
          call' = [call EXCEPT ![t] = [op |-> "reindex_all", vs |-> s, dir |-> dir,
                                       todo |-> dir.reports, loaded |-> Unbound,
                                       failed |-> FALSE]]
    /\ pc' = [pc EXCEPT ![t] = "clear_lock"]
    /\ ret' = [ret EXCEPT ![t] = "none"]
    /\ UNCHANGED <<collections, latest, lastReport, lock, existing, batch, results,
                 faults, context>>

\* a with statement that keeps the lock when the block is left
ReleasedBy_Held(t) == lock

\* the lock after the thread has left its "with self.lock:" block
ReleasedBy(t) == [lock EXCEPT ![call[t].vs] = NoThread]

\* what the collections can hold when the clearing and the recreation have
\* both raised: nothing was removed, the reports were removed (by delete or
\* by delete_collection("reports")), or both collections were removed
ClearedBeforeFailure == {{}, {"reports"}, Partitions}

\* the history of index calls after the collections in cleared were emptied
Forgotten(cleared) ==
    [p \in Partitions |->
        IF p \in cleared THEN [v \in VideoIds |-> Never] ELSE latest[p]]

\* lines 427-435: a get or delete of the clearing raises; the collections are
\* deleted and created again, and the method goes on with the files
ClearFailsRecreated(t) ==
    /\ pc[t] = "clear"
    /\ collections' = [p \in Partitions |-> {}]
    /\ latest' = Forgotten(Partitions)
    /\ lastReport' = NoReport
    /\ faults' = [faults EXCEPT ![t] = @ \cup {"clear"}]
    /\ lock' = ReleasedBy(t)
    /\ pc' = [pc EXCEPT ![t] = "scan"]
    /\ UNCHANGED <<call, existing, batch, results, ret, ncalls, context>>

\* lines 436-438: the recreation raises too; the except clause prints the
\* error and returns from inside the with block
ClearFailsReturn(t) ==
    /\ pc[t] = "clear"
    /\ \E cleared \in ClearedBeforeFailure :
          /\ collections' = [p \in Partitions |->
                                 IF p \in cleared THEN {} ELSE collections[p]]
          /\ latest' = Forgotten(cleared)
    /\ lastReport' = NoReport
    /\ faults' = [faults EXCEPT ![t] = @ \cup {"clear", "recreate"}]
    /\ call' = [call EXCEPT ![t].failed = TRUE]
    /\ lock' = ReleasedBy(t)
    /\ pc' = [pc EXCEPT ![t] = "done"]
    /\ ret' = [ret EXCEPT ![t] = "ok"]
    /\ UNCHANGED <<existing, batch, results, ncalls, context>>

\* main.reindex_all_data: 1 when an exception leaves
\* VectorStore.reindex_all_data, else the success message and 0
MainExit(outcome) == IF outcome = "raised" THEN 1 ELSE 0
MainPrintsSuccess(outcome) == outcome # "raised"

\* report.get("video_title", "Unknown")
TitleOrUnknown(report) ==
    IF Has(report, "video_title") THEN report.video_title ELSE "Unknown"

\* the loop over the report files: json.load and index_report(report) for
\* the next file, or the return when no file is left; when the file cannot be
\* read the except clause prints the error and report keeps its value
NextFile(t) ==
    /\ pc[t] = "scan"
    /\ IF call[t].todo = <<>>
       THEN /\ pc' = [pc EXCEPT ![t] = "done"]
            /\ ret' = [ret EXCEPT ![t] = "ok"]
            /\ UNCHANGED call
       ELSE LET file == Head(call[t].todo)
                outer == [dir |-> call[t].dir, todo |-> Tail(call[t].todo),
                          file |-> file,
                          loaded |-> IF Readable(file) THEN Bound(file.report)
                                     ELSE call[t].loaded,
                          failed |-> call[t].failed \/ ~Readable(file)]
            IN IF Readable(file)
               THEN /\ call' = [call EXCEPT ![t] =
                           [op |-> "index_report", vs |-> call[t].vs,
                            report |-> file.report, outer |-> outer]]
                    /\ pc' = [pc EXCEPT ![t] = "del_lock"]
                    /\ UNCHANGED ret
               ELSE /\ call' = [call EXCEPT ![t] =
                           [op |-> "load_report", vs |-> call[t].vs, outer |-> outer]]
                    /\ pc' = [pc EXCEPT ![t] = "resume"]
                    /\ UNCHANGED ret
    /\ UNCHANGED <<collections, latest, lastReport, lock, existing, batch, results,
                 ncalls, faults, context>>

\* the transcript files of the data directory for a video id
TranscriptFiles(dir, video_id) == {tr \in dir.transcripts : tr[1] = video_id}

\* index_report or index_transcript has returned or raised into the loop
\* (the except clauses print the error): after the report, the transcript of
\* the same video id is indexed if its file exists, under the title of the
\* local variable report, and reading that variable raises NameError when it
\* was never assigned; then the next file
Resume(t) ==
    /\ pc[t] = "resume"
    /\ Has(call[t].outer, "dir")
    /\ LET outer == [call[t].outer EXCEPT
                        !.failed = @ \/ ret[t] = "raised"]
           found == TranscriptFiles(outer.dir, outer.file.video_id)
           wanted == call[t].op \in {"index_report", "load_report"} /\ found # {}
       IN IF wanted /\ outer.loaded.bound
          THEN /\ \E tr \in found :
                     call' = [call EXCEPT ![t] =
                        [op |-> "index_transcript", vs |-> call[t].vs,
                         video_id |-> outer.file.video_id,
                         video_title |-> TitleOrUnknown(outer.loaded.report),
                         transcript_text |-> tr[2],
                         outer |-> outer]]
               /\ pc' = [pc EXCEPT ![t] = "del_lock"]
          ELSE /\ call' = [call EXCEPT ![t] =
                     [op |-> "reindex_all", vs |-> call[t].vs, dir |-> outer.dir,
                      todo |-> outer.todo, loaded |-> outer.loaded,
                      failed |-> outer.failed \/ wanted]]
               /\ pc' = [pc EXCEPT ![t] = "scan"]
    /\ existing' = [existing EXCEPT ![t] = {}]
    /\ batch' = [batch EXCEPT ![t] = <<>>]
    /\ ret' = [ret EXCEPT ![t] = "none"]
    /\ faults' = [faults EXCEPT ![t] = {}]
    /\ UNCHANGED <<collections, latest, lastReport, lock, results, ncalls, context>>

\* the caller takes the result; the thread is free for its next call
Return(t) ==
    /\ pc[t] = "done"
    /\ pc' = [pc EXCEPT ![t] = "idle"]
    /\ call' = [call EXCEPT ![t] = NoCall]
    /\ existing' = [existing EXCEPT ![t] = {}]
    /\ batch' = [batch EXCEPT ![t] = <<>>]
    /\ results' = [results EXCEPT ![t] = <<>>]
    /\ ret' = [ret EXCEPT ![t] = "none"]
    /\ faults' = [faults EXCEPT ![t] = {}]
    /\ context' = [context EXCEPT ![t] = ""]
    /\ UNCHANGED <<collections, latest, lastReport, lock, ncalls>>

(***************************************************************************)
(* qa_agent.py: _ensure_report_indexed, _ensure_transcript_indexed          *)
(***************************************************************************)
\* a thread calls _ensure_report_indexed(report), which retrieves with the
\* test query, n_results=1, reports only, and the video id as filter
CallEnsureReport(t, s) ==
    /\ pc[t] = "idle"
    /\ ncalls < MaxCalls
    /\ ncalls' = ncalls + 1
    /\ \E report \in Reports :
          call' = [call EXCEPT ![t] =
                      [op |-> "ensure_report", vs |-> s, report |-> report,
                       query |-> "Video " \o report.video_title,
                       n_results |-> NResultsEnsure,
                       include_reports |-> TRUE, include_transcripts |-> FALSE,
                       video_ids |-> List(<<report.video_id>>)]]
    /\ pc' = [pc EXCEPT ![t] = "r_lock"]
    /\ ret' = [ret EXCEPT ![t] = "none"]
    /\ UNCHANGED <<collections, latest, lastReport, lock, existing, batch, results,
                 faults, context>>

\* a thread calls _ensure_transcript_indexed(video_id, video_title,
\* transcript_text), which retrieves from the transcripts only
CallEnsureTranscript(t, s) ==
    /\ pc[t] = "idle"
    /\ ncalls < MaxCalls
    /\ ncalls' = ncalls + 1
    /\ \E tr \in Transcripts :
          call' = [call EXCEPT ![t] =
                      [op |-> "ensure_transcript", vs |-> s, video_id |-> tr[1],
                       video_title |-> TitleOf(tr[1]), transcript_text |-> tr[2],
                       query |-> "Transcript " \o TitleOf(tr[1]),
                       n_results |-> NResultsEnsure,
                       include_reports |-> FALSE, include_transcripts |-> TRUE,
                       video_ids |-> List(<<tr[1]>>)]]
    /\ pc' = [pc EXCEPT ![t] = "t_lock"]
    /\ ret' = [ret EXCEPT ![t] = "none"]
    /\ UNCHANGED <<collections, latest, lastReport, lock, existing, batch, results,
                 faults, context>>

\* a test that always asks for indexing
NeedsIndexing_Always(rs) == TRUE

\* "if not results:"
NeedsIndexing(rs) == rs = <<>>

\* the test of the retrieved list: with no result the method calls
\* index_report(report) / index_transcript(video_id, video_title,
\* transcript_text) and returns what that returns; else it returns
Ensure(t) ==
    /\ pc[t] = "ensure"
    /\ IF NeedsIndexing(results[t])
       THEN /\ call' = [call EXCEPT ![t] =
                   IF call[t].op = "ensure_report"
                   THEN [op |-> "index_report", vs |-> call[t].vs,
                         report |-> call[t].report, ensure |-> TRUE]
                   ELSE [op |-> "index_transcript", vs |-> call[t].vs,
                         video_id |-> call[t].video_id,
                         video_title |-> call[t].video_title,
                         transcript_text |-> call[t].transcript_text,
                         ensure |-> TRUE]]
            /\ pc' = [pc EXCEPT ![t] = "del_lock"]
            /\ UNCHANGED ret
       ELSE /\ pc' = [pc EXCEPT ![t] = "done"]
            /\ ret' = [ret EXCEPT ![t] = "ok"]
            /\ UNCHANGED call
    /\ UNCHANGED <<collections, latest, lastReport, lock, existing, batch, results,
                 ncalls, faults, context>>

(***************************************************************************)
(* report_generator.py: _index_report_in_vector_store                       *)
(***************************************************************************)
\* {}: a dict without keys
EmptyDict == <<>>

\* rec.get(field, default)
GetOr(rec, field, default) == IF Has(rec, field) THEN rec[field] ELSE default

\* report.get(f, d) if f in report else report.get("analysis", {}).get(f, d)
TopOrAnalysis(report, field, default) ==
    IF Has(report, field) THEN report[field]
    ELSE GetOr(GetOr(report, "analysis", EmptyDict), field, default)

\* the dict built at lines 454-464 (analysis_timestamp left out); it has no
\* "analysis" key
formatted_report(report) ==
    [video_id |-> report.video_id,
     video_title |-> GetOr(report, "video_title", GetOr(report, "title", "Unknown")),
     channel_title |-> GetOr(report, "channel_title", "Unknown"),
     main_topics |-> TopOrAnalysis(report, "main_topics", <<>>),
     key_points |-> TopOrAnalysis(report, "key_points", <<>>),
     technologies_mentioned |-> TopOrAnalysis(report, "technologies_mentioned", <<>>),
     summary |-> TopOrAnalysis(report, "summary", ""),
     relevant_for |-> TopOrAnalysis(report, "relevant_for", <<"General audience">>)]

\* reports as analyze_transcript builds them (lines 255-289): the analysis
\* mapping, and the same fields at top level; and a report loaded from an
\* older file that has the analysis mapping only
GeneratedReports ==
    { [video_id |-> "v1", video_title |-> TitleOf("v1"),
       analysis |-> [key_points |-> <<"A", "Z">>, overall_summary |-> "S"],
       key_points |-> <<"A", "Z">>, summary |-> "S"],
      [video_id |-> "v2", video_title |-> TitleOf("v2"),
       analysis |-> [key_points |-> <<"A">>]] }

\* the report generator calls _index_report_in_vector_store(report), which
\* calls index_report(formatted_report) and re-raises what it raises
CallIndexReportViaGenerator(t, s) ==
    /\ pc[t] = "idle"
    /\ ncalls < MaxCalls
    /\ ncalls' = ncalls + 1
    /\ \E report \in GeneratedReports :
          call' = [call EXCEPT ![t] = [op |-> "index_report", vs |-> s,
                                       report |-> formatted_report(report),
                                       supplied |-> report]]
    /\ pc' = [pc EXCEPT ![t] = "del_lock"]
    /\ ret' = [ret EXCEPT ![t] = "none"]
    /\ UNCHANGED <<collections, latest, lastReport, lock, existing, batch, results,
                 faults, context>>

\* a thread calls index_report with a report of any shape
CallIndexReportRich(t, s) ==
    /\ pc[t] = "idle"
    /\ ncalls < MaxCalls
    /\ ncalls' = ncalls + 1
    /\ \E report \in RichReports :
          call' = [call EXCEPT ![t] = [op |-> "index_report", vs |-> s,
                                       report |-> report]]
    /\ pc' = [pc EXCEPT ![t] = "del_lock"]
    /\ ret' = [ret EXCEPT ![t] = "none"]
    /\ UNCHANGED <<collections, latest, lastReport, lock, existing, batch, results,
                 faults, context>>

\* a thread calls index_transcript with a text of any shape
CallIndexTranscriptText(t, s) ==
    /\ pc[t] = "idle"
    /\ ncalls < MaxCalls
    /\ ncalls' = ncalls + 1
    /\ \E v \in VideoIds, text \in ChunkTexts :
          call' = [call EXCEPT ![t] = [op |-> "index_transcript", vs |-> s,
                                       video_id |-> v, video_title |-> TitleOf(v),
                                       transcript_text |-> text]]
    /\ pc' = [pc EXCEPT ![t] = "del_lock"]
    /\ ret' = [ret EXCEPT ![t] = "none"]
    /\ UNCHANGED <<collections, latest, lastReport, lock, existing, batch, results,
                 faults, context>>

(***************************************************************************)
(* report_generator.py: analyze_transcript and its analyzed_videos_cache.   *)
(* The ReportGenerator of a process lives in the call record of its thread: *)
(* cache is self.analyzed_videos_cache, files the <video_id>_report.json    *)
(* files of the data directory.                                             *)
(***************************************************************************)
\* d[k] = v for a dict
DictSet(d, k, v) == [x \in DOMAIN d \cup {k} |-> IF x = k THEN v ELSE d[x]]

\* analyze_transcript returns None
NoResult == [none |-> TRUE]

\* how often one process calls analyze_transcript
MaxAnalyses == 2

\* what the try block of lines 200-306 meets: _call_claude_api gives no
\* response, the response parses to an analysis, json.loads raises
\* JSONDecodeError, or another exception is raised
ApiOutcomes == {"no_response", "parsed", "bad_json", "error"}

\* the analysis that json.loads returns
ParsedAnalysis ==
    [main_topics |-> <<"M">>, key_points |-> <<"A">>, summary |-> "S",
     important_facts |-> <<"F">>]

\* lines 246-252: the five fields that are kept, with their defaults
RequiredFields(analysis) ==
    [main_topics |-> GetOr(analysis, "main_topics", <<>>),
     key_points |-> GetOr(analysis, "key_points", <<>>),
     technologies_mentioned |-> GetOr(analysis, "technologies_mentioned", <<>>),
     summary |-> GetOr(analysis, "summary", "No summary available"),
     relevant_for |-> GetOr(analysis, "relevant_for", <<"General audience">>)]

\* lines 255-289: the report (the two timestamps left out)
BuiltReport(video, analysis) ==
    [video_id |-> video.id,
     title |-> video.title,
     video_title |-> video.title,
     analysis |->
        [main_topics |-> GetOr(analysis, "main_topics", <<>>),
         key_points |-> GetOr(analysis, "key_points", <<>>),
         technical_details |-> GetOr(analysis, "technologies_mentioned", <<>>),
         technologies_mentioned |-> GetOr(analysis, "technologies_mentioned", <<>>),
         overall_summary |-> GetOr(analysis, "summary", ""),
         summary |-> GetOr(analysis, "summary", ""),
         target_audience |-> GetOr(analysis, "relevant_for", <<>>),
         relevant_for |-> GetOr(analysis, "relevant_for", <<>>),
         important_facts |-> GetOr(analysis, "important_facts", <<>>),
         examples_and_stories |-> GetOr(analysis, "examples_and_stories", <<>>),
         examples_and_segments |-> GetOr(analysis, "examples_and_stories", <<>>),
         important_segments |-> GetOr(analysis, "important_segments", <<>>),
         tone_and_style |-> GetOr(analysis, "tone_and_style", ""),
         content_quality |-> GetOr(analysis, "content_quality", "")],
     main_topics |-> GetOr(analysis, "main_topics", <<>>),
     key_points |-> GetOr(analysis, "key_points", <<>>),
     technologies_mentioned |-> GetOr(analysis, "technologies_mentioned", <<>>),
     summary |-> GetOr(analysis, "summary", ""),
     relevant_for |-> GetOr(analysis, "relevant_for", <<>>),
     important_facts |-> GetOr(analysis, "important_facts", <<>>),
     examples_and_segments |-> GetOr(analysis, "examples_and_stories", <<>>)]

\* lines 318-327 and 343-352: the report of a failed analysis (the date and
\* the text of the error left out)
minimal_report(video, outcome) ==
    [video_id |-> video.id,
     title |-> video.title,
     main_topics |-> <<"Analysis failed">>,
     key_points |-> <<IF outcome = "bad_json" THEN "JSON parsing error" ELSE "Error">>,
     technologies_mentioned |-> <<>>,
     summary |-> "Failed to analyze video",
     relevant_for |-> <<"N/A">>]

\* lines 331 and 356: self.analyzed_videos_cache[video_id] = minimal_report
CachedAfterFailure(cache, video_id, report) == DictSet(cache, video_id, report)

\* report files that earlier runs left in the data directory
ReportFilesOnDisk ==
    {EmptyDict,
     [v \in {"v2"} |-> [video_id |-> "v2", video_title |-> TitleOf("v2"),
                        analysis |-> [key_points |-> <<"A">>]]]}

\* a process creates its ReportGenerator (line 82: the cache is empty)
CallGenerator(t, s) ==
    /\ pc[t] = "idle"
    /\ ncalls < MaxCalls
    /\ ncalls' = ncalls + 1
    /\ \E files \in ReportFilesOnDisk :
          call' = [call EXCEPT ![t] =
                      [op |-> "generator", vs |-> s, cache |-> EmptyDict,
                       files |-> files, analyses |-> 0, video_id |-> "",
                       source |-> "none", returned |-> NoResult]]
    /\ pc' = [pc EXCEPT ![t] = "generate"]
    /\ ret' = [ret EXCEPT ![t] = "none"]
    /\ UNCHANGED <<collections, latest, lastReport, lock, existing, batch, results,
                 faults, context>>

\* the generator after a call of analyze_transcript for video v that took its
\* result from source
Analyzed(g, v, source, cache, files, returned) ==
    [g EXCEPT !.analyses = @ + 1, !.video_id = v, !.source = source,
              !.cache = cache, !.files = files, !.returned = returned]

\* analyze_transcript(video, transcript): the cached report (lines 135-137),
\* the report file (lines 140-148), or the API call and what follows it; a
\* parsed analysis is saved, cached and handed to the vector store
analyze_transcript(t) ==
    /\ pc[t] = "generate"
    /\ call[t].analyses < MaxAnalyses
    /\ \E v \in VideoIds :
          LET g == call[t]
              video == [id |-> v, title |-> TitleOf(v)]
          IN IF v \in DOMAIN g.cache
             THEN /\ call' = [call EXCEPT ![t] =
                                 Analyzed(g, v, "cache", g.cache, g.files, g.cache[v])]
                  /\ UNCHANGED pc
             ELSE IF v \in DOMAIN g.files
             THEN /\ call' = [call EXCEPT ![t] =
                                 Analyzed(g, v, "file", DictSet(g.cache, v, g.files[v]),
                                          g.files, g.files[v])]
                  /\ UNCHANGED pc
             ELSE \E outcome \in ApiOutcomes :
                    IF outcome = "no_response"
                    THEN /\ call' = [call EXCEPT ![t] =
                                        Analyzed(g, v, "api", g.cache, g.files, NoResult)]
                         /\ UNCHANGED pc
                    ELSE IF outcome = "parsed"
                    THEN LET report == BuiltReport(video, RequiredFields(ParsedAnalysis))
                             outer == Analyzed(g, v, "api", DictSet(g.cache, v, report),
                                               DictSet(g.files, v, report), report)
                         IN /\ call' = [call EXCEPT ![t] =
                                           [op |-> "index_report", vs |-> g.vs,
                                            report |-> formatted_report(report),
                                            supplied |-> report, outer |-> outer]]
                            /\ pc' = [pc EXCEPT ![t] = "del_lock"]
                    ELSE LET report == minimal_report(video, outcome)
                         IN /\ call' = [call EXCEPT ![t] =
                                           Analyzed(g, v, "api",
                                                    CachedAfterFailure(g.cache, v, report),
                                                    g.files, report)]
                            /\ UNCHANGED pc
    /\ UNCHANGED <<collections, latest, lastReport, lock, existing, batch, results,
                 ret, ncalls, faults, context>>

\* lines 299-304: index_report has returned and the transcript is indexed, or
\* it has raised and the except clause prints a warning; index_transcript has
\* returned or raised (lines 472-477 print the error); the report is returned
Indexed(t) ==
    /\ pc[t] = "resume"
    /\ Has(call[t].outer, "cache")
    /\ IF call[t].op = "index_report" /\ ret[t] # "raised"
       THEN /\ call' = [call EXCEPT ![t] =
                           [op |-> "index_transcript", vs |-> call[t].vs,
                            video_id |-> call[t].outer.video_id,
                            video_title |-> TitleOf(call[t].outer.video_id),
                            transcript_text |-> "hello",
                            outer |-> call[t].outer]]
            /\ pc' = [pc EXCEPT ![t] = "del_lock"]
       ELSE /\ call' = [call EXCEPT ![t] = call[t].outer]
            /\ pc' = [pc EXCEPT ![t] = "generate"]
    /\ existing' = [existing EXCEPT ![t] = {}]
    /\ batch' = [batch EXCEPT ![t] = <<>>]
    /\ ret' = [ret EXCEPT ![t] = "none"]
    /\ faults' = [faults EXCEPT ![t] = {}]
    /\ UNCHANGED <<collections, latest, lastReport, lock, results, ncalls, context>>

\* the process ends, and its cache with it
Exit(t) ==
    /\ pc[t] = "generate"
    /\ pc' = [pc EXCEPT ![t] = "done"]
    /\ ret' = [ret EXCEPT ![t] = "ok"]
    /\ UNCHANGED <<collections, latest, lastReport, lock, call, existing, batch,
                 results, ncalls, faults, context>>

(***************************************************************************)
(* Specifications                                                           *)
(***************************************************************************)
Invoke(t, s) == CallIndexReport(t, s) \/ CallIndexTranscript(t, s) \/ CallRetrieve(t, s)

Step(t) ==
    \/ AcquireForDelete(t) \/ Get(t) \/ Delete(t) \/ AcquireForAdd(t) \/ Add(t)
    \/ AcquireForReportsQuery(t) \/ QueryReports(t)
    \/ AcquireForTranscriptsQuery(t) \/ QueryTranscripts(t)
    \/ Return(t)

\* threads of one process sharing one VectorStore instance
Next == \E t \in Threads : Invoke(t, "vs1") \/ Step(t)
Spec == Init /\ [][Next]_vars

\* calls that do not overlap: a call starts when no other call is running
NextSeq == \E t \in Threads : (AllIdle /\ Invoke(t, "vs1")) \/ Step(t)
SpecSeq == Init /\ [][NextSeq]_vars

\* threads using the VectorStore instances of different agents, which share
\* the persisted collections
NextMulti == \E t \in Threads : (\E s \in Stores : Invoke(t, s)) \/ Step(t)
SpecMulti == Init /\ [][NextMulti]_vars

\* the steps of index_report / index_transcript and of a retrieval
IndexStep(t) ==
    AcquireForDelete(t) \/ Get(t) \/ Delete(t) \/ AcquireForAdd(t) \/ Add(t)
RetrieveStep(t) ==
    \/ AcquireForReportsQuery(t) \/ QueryReports(t)
    \/ AcquireForTranscriptsQuery(t) \/ QueryTranscripts(t)

\* one caller at a time indexes documents and asks for the context of a query
NextContext ==
    \E t \in Threads :
        \/ AllIdle /\ (\/ CallIndexReport(t, "vs1") \/ CallIndexTranscript(t, "vs1")
                       \/ CallGetContext(t, "vs1"))
        \/ IndexStep(t) \/ RetrieveStep(t) \/ Format(t) \/ Return(t)
SpecContext == Init /\ [][NextContext]_vars

\* the steps in which a backend call raises
FailStep(t) ==
    \/ GetFails(t) \/ DeleteFails(t) \/ AddFails(t)
    \/ QueryReportsFails(t) \/ QueryTranscriptsFails(t)

\* one caller at a time, a backend whose calls can raise, and reports that can
\* lack a field
NextFaulty ==
    \E t \in Threads :
        \/ AllIdle /\ (\/ Invoke(t, "vs1") \/ CallGetContext(t, "vs1")
                       \/ CallIndexReportMalformed(t, "vs1"))
        \/ Step(t) \/ Format(t) \/ FailStep(t)
SpecFaulty == Init /\ [][NextFaulty]_vars

\* one caller at a time indexes documents and rebuilds the index from the
\* data directory
NextReindex ==
    \E t \in Threads :
        \/ AllIdle /\ (\/ CallIndexReport(t, "vs1") \/ CallIndexTranscript(t, "vs1")
                       \/ CallReindexAll(t, "vs1"))
        \/ IndexStep(t)
        \/ AcquireForClear(t) \/ Clear(t) \/ NextFile(t) \/ Resume(t)
        \/ Return(t)
SpecReindex == Init /\ [][NextReindex]_vars

\* the steps of reindex_all_data
ReindexStep(t) ==
    \/ AcquireForClear(t) \/ Clear(t) \/ ClearFailsRecreated(t) \/ ClearFailsReturn(t)
    \/ NextFile(t) \/ Resume(t)

\* one caller at a time indexes documents and rebuilds the index, with a
\* backend whose calls can raise and report files that may be unreadable
NextRebuild ==
    \E t \in Threads :
        \/ AllIdle /\ (\/ CallIndexTranscript(t, "vs1") \/ CallReindexAll(t, "vs1")
                       \/ CallReindexAllFaulty(t, "vs1"))
        \/ IndexStep(t) \/ GetFails(t) \/ DeleteFails(t) \/ AddFails(t)
        \/ ReindexStep(t) \/ Return(t)
SpecRebuild == Init /\ [][NextRebuild]_vars

\* the calls that threads make at the same time on one VectorStore instance:
\* index a transcript, retrieve from both collections, and rebuild the index
\* from a data directory with one report and its transcript
InvokeShared(t) ==
    \/ /\ CallIndexTranscript(t, "vs1")
       /\ call'[t].video_id = "v2" /\ call'[t].transcript_text = "hello"
    \/ /\ CallRetrieve(t, "vs1")
       /\ call'[t].include_reports /\ call'[t].include_transcripts
       /\ call'[t].video_ids = None
    \/ /\ CallReindexAll(t, "vs1")
       /\ Len(call'[t].dir.reports) = 1
       /\ call'[t].dir.transcripts = {<<"v1", "hello">>}
       /\ call'[t].dir.reports[1].video_id = "v1"

\* the steps a thread takes once it is inside a call
ThreadStep(t) == Step(t) \/ FailStep(t) \/ ReindexStep(t)

\* the thread is inside a call and not blocked: it is not at a
\* "with self.lock:" statement whose lock another thread holds
CanRun(t) ==
    /\ pc[t] # "idle"
    /\ pc[t] \in {"del_lock", "add_lock", "r_lock", "t_lock", "clear_lock"} => LockFree(t)

\* the positions of a thread in the methods of VectorStore
Positions ==
    {"idle", "del_lock", "get", "delete", "add_lock", "add", "r_lock", "r_query",
     "t_lock", "t_query", "clear_lock", "clear", "scan", "resume", "done"}

\* the thread moves to another position (every step of ThreadStep changes the
\* position of its thread, and no other step does)
Scheduled(t) ==
    /\ CanRun(t)
    /\ \E p \in Positions \ {pc[t]} : pc' = [pc EXCEPT ![t] = p]

\* threads of one process sharing one VectorStore instance, with a backend
\* whose calls can raise.  A thread that can run does run: a runnable thread
\* is scheduled, a backend call returns or raises, and Lock.acquire returns
\* once the lock stays free.  Nothing obliges a caller to call.
NextLock == \E t \in Threads : InvokeShared(t) \/ ThreadStep(t)
SpecLock == Init /\ [][NextLock]_vars /\ \A t \in Threads : WF_pc(Scheduled(t))

\* one process at a time analyses transcripts with its ReportGenerator; the
\* add of the vector store can raise
NextAnalyze ==
    \E t \in Threads :
        \/ AllIdle /\ CallGenerator(t, "vs1")
        \/ analyze_transcript(t) \/ IndexStep(t) \/ AddFails(t) \/ Indexed(t)
        \/ Exit(t) \/ Return(t)
SpecAnalyze == Init /\ [][NextAnalyze]_vars

\* one caller at a time indexes reports, handed to index_report by the caller
\* itself or by the report generator
NextGenerator ==
    \E t \in Threads :
        \/ AllIdle /\ (\/ CallIndexReport(t, "vs1")
                       \/ CallIndexReportViaGenerator(t, "vs1"))
        \/ IndexStep(t) \/ Return(t)
SpecGenerator == Init /\ [][NextGenerator]_vars

\* one caller at a time indexes documents or makes sure they are indexed
NextEnsure ==
    \E t \in Threads :
        \/ AllIdle /\ (\/ CallIndexReport(t, "vs1") \/ CallIndexTranscript(t, "vs1")
                       \/ CallEnsureReport(t, "vs1") \/ CallEnsureTranscript(t, "vs1"))
        \/ IndexStep(t) \/ RetrieveStep(t) \/ Ensure(t) \/ Return(t)
SpecEnsure == Init /\ [][NextEnsure]_vars

\* one caller at a time indexes reports of any shape
NextSections ==
    \E t \in Threads :
        \/ AllIdle /\ (CallIndexReport(t, "vs1") \/ CallIndexReportRich(t, "vs1"))
        \/ IndexStep(t) \/ Return(t)
SpecSections == Init /\ [][NextSections]_vars

\* one caller at a time indexes transcripts of any shape
NextChunk ==
    \E t \in Threads :
        \/ AllIdle /\ CallIndexTranscriptText(t, "vs1")
        \/ IndexStep(t) \/ Return(t)
SpecChunk == Init /\ [][NextChunk]_vars

(***************************************************************************)
(* Vocabulary of the properties                                             *)
(***************************************************************************)
IsRetrieve(t) == call[t].op = "retrieve"

\* an index call that has started and not yet left its add step
InFlight(t) == IsIndex(t) /\ pc[t] \in {"del_lock", "get", "delete", "add_lock", "add"}

\* the thread is inside a backend call (get, delete, add or query)
InBackend(t) == pc[t] \in {"get", "delete", "add", "r_query", "t_query"}

\* the thread waits for the lock of its VectorStore
Waiting(t) == pc[t] \in {"del_lock", "add_lock", "r_lock", "t_lock"}

\* the collection the thread's current or next backend call is on
PartOf(t) ==
    IF pc[t] \in {"r_lock", "r_query"} THEN "reports"
    ELSE IF pc[t] \in {"t_lock", "t_query"} THEN "transcripts"
    ELSE Target(t)

SourceOf(p) == IF p = "reports" THEN "report" ELSE "transcript"
Included(t, p) ==
    IF p = "reports" THEN call[t].include_reports ELSE call[t].include_transcripts

\* chunks as (id-free) pairs of text and metadata, the way a result shows them
Pairs(chunks) == {<<c.document, c.metadata>> : c \in chunks}

\* what a result list shows of document v in collection p
Observed(rs, p, v) ==
    {<<x.chunk, x.metadata>> :
        x \in {y \in Range(rs) : y.source = SourceOf(p) /\ y.metadata.video_id = v}}

\* the chunk sets one index call can produce for document v in collection p
Batches(p, v) ==
    IF p = "reports"
    THEN {Range(ReportBatch(r)) : r \in {x \in Reports : x.video_id = v}}
    ELSE {Range(TranscriptBatch(tr[1], TitleOf(tr[1]), tr[2])) :
             tr \in {x \in Transcripts : x[1] = v}}

(***************************************************************************)
(* C1. After calls that do not overlap, the chunks a document has in a      *)
(* collection are exactly the chunks of the latest index call for it: no    *)
(* chunk of an earlier run remains, also when the chunk count, and with it  *)
(* the chunk ids, changed.                                                  *)
(***************************************************************************)
C1_LatestRunOwnsDocument ==
    \A p \in Partitions, v \in VideoIds :
        (/\ latest[p][v].state = "returned"
         /\ ~ \E t \in Threads : InFlight(t) /\ Target(t) = p /\ VideoIdOf(t) = v)
        => DocChunks(p, v) = latest[p][v].chunks

\* a re-indexing that changed the chunk count has returned
C1_Witness ==
    \E t \in Threads :
        /\ IsIndex(t) /\ pc[t] = "done" /\ ret[t] = "ok"
        /\ existing[t] # {}
        /\ Cardinality(existing[t]) # Len(batch[t])
        /\ DocChunks(Target(t), VideoIdOf(t)) = Range(batch[t])

(***************************************************************************)
(* C2. With two threads indexing the same document through one VectorStore, *)
(* a collection never holds chunks of two runs of a document at once, and   *)
(* add is never issued for a chunk id the collection already holds.         *)
(***************************************************************************)
C2_NoOverlapNoDuplicateAdd ==
    /\ \A t \in Threads :
          (IsIndex(t) /\ pc[t] = "add")
          => Duplicates(collections[Target(t)], batch[t]) = {}
    /\ \A p \in Partitions, v \in VideoIds :
          DocChunks(p, v) = {} \/ DocChunks(p, v) \in Batches(p, v)

(***************************************************************************)
(* C3. No two backend operations on the same collection are in progress at  *)
(* the same time, whichever threads of the process issue them.              *)
(***************************************************************************)
C3_BackendOpsSerialized ==
    \A t, u \in Threads :
        (t # u /\ InBackend(t) /\ InBackend(u)) => PartOf(t) # PartOf(u)

(***************************************************************************)
(* C4. As claimed: the collections are independent, so a thread waiting for *)
(* the lock is only ever kept out by an operation on the collection it      *)
(* wants itself.                                                            *)
(***************************************************************************)
C4_PartitionsIndependent ==
    \A t, u \in Threads :
        (Waiting(t) /\ InBackend(u) /\ lock[call[t].vs] = u) => PartOf(t) = PartOf(u)

(***************************************************************************)
(* C4, amended. One lock per VectorStore guards both collections: through   *)
(* one VectorStore at most one backend operation, on either collection, is  *)
(* in progress, and it is the one of the thread holding the lock.           *)
(***************************************************************************)
C4_OneLockForBothCollections ==
    /\ \A t, u \in Threads :
          (t # u /\ InBackend(t) /\ InBackend(u)) => call[t].vs # call[u].vs
    /\ \A t \in Threads : InBackend(t) => lock[call[t].vs] = t

\* an operation on transcripts waits while an operation on reports is in progress
C4_Witness ==
    \E t, u \in Threads :
        /\ Waiting(t) /\ InBackend(u) /\ call[t].vs = call[u].vs
        /\ PartOf(t) = "transcripts" /\ PartOf(u) = "reports"

(***************************************************************************)
(* C5. A query that another thread runs while a document that already had   *)
(* chunks is being re-indexed shows, for that document and collection,      *)
(* either all the old chunks or all the new chunks, never none or a part.   *)
(***************************************************************************)
\* the chunks the document had when the index call of t began
OldChunks(t) ==
    IF pc[t] = "del_lock" THEN DocChunks(Target(t), VideoIdOf(t)) ELSE existing[t]

\* thread r completes its query of collection p in this step
QueryStep(r, p) ==
    /\ IsRetrieve(r)
    /\ pc[r] = (IF p = "reports" THEN "r_query" ELSE "t_query")
    /\ pc'[r] # pc[r]

C5_ReindexAtomicForReaders ==
    [][\A r, t \in Threads :
          (/\ r # t
           /\ InFlight(t)
           /\ OldChunks(t) # {}
           /\ QueryStep(r, Target(t))
           /\ Matches([metadata |-> [video_id |-> VideoIdOf(t)]],
                      WhereClause(call[r].video_ids)))
          => Observed(results'[r], Target(t), VideoIdOf(t))
                \in {Pairs(OldChunks(t)), Pairs(Range(PreparedBatch(t)))}]_vars

(***************************************************************************)
(* C6. Single writer, then readers: once an index call for a document has   *)
(* returned, a query that starts afterwards returns, for that document and  *)
(* collection, every chunk the call added and no chunk it deleted.          *)
(***************************************************************************)
C6_QueryAfterIndexSeesIt ==
    \A r \in Threads, p \in Partitions, v \in VideoIds :
        (/\ IsRetrieve(r) /\ pc[r] = "done"
         /\ Included(r, p)
         /\ Matches([metadata |-> [video_id |-> v]], WhereClause(call[r].video_ids))
         /\ latest[p][v].state = "returned")
        => Observed(results[r], p, v) = Pairs(latest[p][v].chunks)

\* a query has returned the two chunks of a document that was re-indexed from
\* one chunk to two
C6_Witness ==
    \E r \in Threads, p \in Partitions, v \in VideoIds :
        /\ IsRetrieve(r) /\ pc[r] = "done" /\ Included(r, p)
        /\ call[r].video_ids = List(<<v>>)
        /\ latest[p][v].state = "returned"
        /\ Cardinality(latest[p][v].chunks) = 2
        /\ Cardinality(Observed(results[r], p, v)) = 2
        /\ ncalls = 3

(***************************************************************************)
(* C7. Idempotent re-indexing: index_report called twice in a row with the  *)
(* same report leaves the reports collection as the first call left it:     *)
(* same ids, same texts, same chunk count.                                  *)
(***************************************************************************)
C7_ReindexIdempotent ==
    (lastReport.valid /\ lastReport.repeated) => lastReport.snap = lastReport.prev

\* a two-chunk report has been indexed twice in a row, next to another document
C7_Witness ==
    /\ lastReport.valid /\ lastReport.repeated
    /\ Cardinality(DocChunks("reports", lastReport.report.video_id)) = 2
    /\ \E c \in lastReport.snap : c.metadata.video_id # lastReport.report.video_id

(***************************************************************************)
(* C8. The delete step removes every chunk of the document from the target  *)
(* collection and raises nothing; with no chunk to delete it changes        *)
(* nothing.  While the document has no chunk, a retrieve filtered to it     *)
(* gets no hit from that collection.                                        *)
(***************************************************************************)
\* thread t leaves the lock scope of its delete step in this step
DeleteStepEnds(t) == IsIndex(t) /\ pc[t] \in {"get", "delete"} /\ pc'[t] = "add_lock"

C8_DeleteStepComplete ==
    /\ [][\A t \in Threads :
             DeleteStepEnds(t)
             => /\ DocChunks(Target(t), VideoIdOf(t))' = {}
                /\ ret'[t] # "raised"
                /\ (DocChunks(Target(t), VideoIdOf(t)) = {} => collections' = collections)]_vars
    /\ [][\A r \in Threads, p \in Partitions, v \in VideoIds :
             (/\ QueryStep(r, p)
              /\ call[r].video_ids = List(<<v>>)
              /\ DocChunks(p, v) = {})
             => {x \in Range(results'[r]) : x.source = SourceOf(p)} = {}]_vars

\* between the delete and the add of a re-indexing, a retrieve filtered to the
\* document has come back empty
C8_Witness ==
    \E t, r \in Threads :
        /\ IsIndex(t) /\ pc[t] = "add_lock" /\ existing[t] # {}
        /\ DocChunks(Target(t), VideoIdOf(t)) = {}
        /\ IsRetrieve(r) /\ pc[r] = "done" /\ Included(r, Target(t))
        /\ call[r].video_ids = List(<<VideoIdOf(t)>>)
        /\ results[r] = <<>>

(***************************************************************************)
(* C9. As claimed: for every supplied document-id filter D, the empty one   *)
(* included, every returned chunk has its video_id in D.                    *)
(***************************************************************************)
C9_FilterCorrectAnyList ==
    \A r \in Threads :
        (IsRetrieve(r) /\ ~call[r].video_ids.is_none)
        => \A x \in Range(results[r]) :
              x.metadata.video_id \in Range(call[r].video_ids.ids)

(***************************************************************************)
(* C9, amended. For every non-empty document-id filter D, every returned    *)
(* chunk, of either source, has its video_id in D; an empty list is treated *)
(* like no filter.                                                          *)
(***************************************************************************)
C9_FilterCorrectNonEmpty ==
    \A r \in Threads :
        (IsRetrieve(r) /\ Truthy(call[r].video_ids))
        => \A x \in Range(results[r]) :
              x.metadata.video_id \in Range(call[r].video_ids.ids)

\* a filtered retrieve has returned a hit from a collection that also holds a
\* chunk of a document outside the filter
C9_Witness ==
    \E r \in Threads, p \in Partitions :
        /\ IsRetrieve(r) /\ pc[r] = "done" /\ Truthy(call[r].video_ids)
        /\ \E x \in Range(results[r]) : x.source = SourceOf(p)
        /\ \E c \in collections[p] :
              c.metadata.video_id \notin Range(call[r].video_ids.ids)

(***************************************************************************)
(* C10. The list retrieve_relevant_chunks returns is ordered by             *)
(* non-decreasing distance across the hits of both collections.             *)
(***************************************************************************)
C10_ResultsSortedByDistance ==
    \A r \in Threads :
        (IsRetrieve(r) /\ pc[r] = "done")
        => \A i, j \in 1..Len(results[r]) :
              i < j => results[r][i].distance <= results[r][j].distance

\* a returned list in which a transcript hit precedes a farther report hit
C10_Witness ==
    \E r \in Threads :
        /\ IsRetrieve(r) /\ pc[r] = "done"
        /\ \E i, j \in 1..Len(results[r]) :
              /\ i < j
              /\ results[r][i].source = "transcript" /\ results[r][j].source = "report"
              /\ results[r][i].distance < results[r][j].distance

(***************************************************************************)
(* C11. retrieve_relevant_chunks consults only the requested collections:   *)
(* its result holds a hit of source 'report' only with include_reports and  *)
(* a hit of source 'transcript' only with include_transcripts.  With both   *)
(* flags false the result is the empty list; a query that finds no matching *)
(* chunk adds nothing; and in these cases nothing is raised.                *)
(***************************************************************************)
\* the sources a result list holds hits of
Sources(rs) == {x.source : x \in Range(rs)}

C11_OnlyRequestedPartitions ==
    [][\A r \in Threads :
          /\ (IsRetrieve(r))'
             => /\ \A p \in Partitions :
                      (SourceOf(p) \in Sources(results[r]))' => (Included(r, p))'
                /\ (~call[r].include_reports /\ ~call[r].include_transcripts)'
                   => (pc[r] = "done" /\ results[r] = <<>> /\ ret[r] = "ok")'
          /\ \A p \in Partitions :
                (/\ QueryStep(r, p)
                 /\ \A c \in collections[p] :
                       ~Matches(c, WhereClause(call[r].video_ids)))
                => /\ SourceOf(p) \notin Sources(results'[r])
                   /\ ret'[r] # "raised"
                   /\ (pc'[r] = "done" /\ Sources(results[r]) = {})
                      => (results'[r] = <<>> /\ ret'[r] = "ok")]_vars

\* a retrieve of transcripts only has returned transcript hits while the
\* reports collection holds chunks that match its filter
C11_Witness ==
    \E r \in Threads :
        /\ IsRetrieve(r) /\ pc[r] = "done" /\ ret[r] = "ok"
        /\ ~call[r].include_reports /\ call[r].include_transcripts
        /\ results[r] # <<>>
        /\ \E c \in collections["reports"] :
              Matches(c, WhereClause(call[r].video_ids))

(***************************************************************************)
(* C12. get_context_for_query returns exactly the sentinel string           *)
(* 'No relevant information found.' when the retrieval yields no chunk, and *)
(* only then; otherwise what it returns begins with the header line and     *)
(* holds a 'Video: <title> (ID: <id>)' line for every video that has a      *)
(* chunk in the retrieval (so at least one).                                *)
(***************************************************************************)
IsContext(t) == call[t].op = "get_context"

StartsWith(text, prefix) ==
    Len(text) >= Len(prefix) /\ SubSeq(text, 1, Len(prefix)) = prefix

C12_SentinelIffNoChunks ==
    \A t \in Threads :
        (IsContext(t) /\ pc[t] = "done" /\ ret[t] = "ok")
        => /\ (context[t] = NoInformation) <=> (results[t] = <<>>)
           /\ results[t] # <<>>
              => /\ StartsWith(context[t], ContextHeader)
                 /\ \A x \in Range(results[t]) :
                       Contains(context[t],
                                VideoLine(x.metadata.video_title, x.metadata.video_id))

\* the sentinel has been returned for a filter that names a document without
\* chunks, while both collections hold chunks of another document
C12_Witness ==
    \E t \in Threads :
        /\ IsContext(t) /\ pc[t] = "done" /\ context[t] = NoInformation
        /\ Truthy(call[t].video_ids)
        /\ \A p \in Partitions : collections[p] # {}

(***************************************************************************)
(* C13. A backend failure in the similarity search of either collection     *)
(* leaves retrieve_relevant_chunks, and get_context_for_query, as an error: *)
(* the call ends raised and returns no list, no partial list and no         *)
(* sentinel; a retrieval that ends raised had a failing search, so "zero    *)
(* results" and "query error" stay apart.                                   *)
(***************************************************************************)
QueryFaults == {"query_reports", "query_transcripts"}

C13_QueryErrorPropagates ==
    \A t \in Threads :
        (IsRetrieve(t) \/ IsContext(t))
        => /\ (faults[t] \cap QueryFaults # {})
              => /\ pc[t] = "done" /\ ret[t] = "raised"
                 /\ results[t] = <<>> /\ context[t] = ""
           /\ (pc[t] = "done" /\ faults[t] \cap QueryFaults = {}) => ret[t] = "ok"

\* get_context_for_query has ended raised by a failing transcripts search
\* after its reports search had a matching chunk to return
C13_Witness ==
    \E t \in Threads :
        /\ IsContext(t) /\ pc[t] = "done" /\ ret[t] = "raised"
        /\ faults[t] = {"query_transcripts"}
        /\ \E c \in collections["reports"] :
              Matches(c, WhereClause(call[t].video_ids))

(***************************************************************************)
(* C14. A report that lacks video_id or video_title is rejected by          *)
(* index_report before any mutation: the call raises, and no step of it     *)
(* changes a chunk of either collection.                                    *)
(***************************************************************************)
Malformed(report) == ~Has(report, "video_id") \/ ~Has(report, "video_title")

C14_MalformedRejectedBeforeMutation ==
    [][\A t \in Threads :
          /\ (call[t].op = "index_report" /\ Malformed(call[t].report))
             => collections' = collections
          /\ (call[t].op = "index_report" /\ Malformed(call[t].report) /\ pc[t] = "done")'
             => ret'[t] = "raised"]_vars

(***************************************************************************)
(* C15. No error of the delete step is swallowed: when the backend raises   *)
(* while index_report / index_transcript looks up or deletes the existing   *)
(* chunks, the call ends raised and goes on to no add of new chunks.        *)
(***************************************************************************)
DeleteStepFaults == {"get", "delete"}

C15_DeleteStepErrorsReachCaller ==
    \A t \in Threads :
        (IsIndex(t) /\ faults[t] \cap DeleteStepFaults # {})
        => pc[t] = "done" /\ ret[t] = "raised"

(***************************************************************************)
(* C16. When the add of index_report / index_transcript raises after a      *)
(* delete step that succeeded, the call ends raised at once (no retry) and  *)
(* the document is left without any chunk in that collection: the previous  *)
(* chunks are gone and none of the new ones is stored.                      *)
(***************************************************************************)
C16_AddFailureLeavesUnindexed ==
    \A t \in Threads :
        (IsIndex(t) /\ "add" \in faults[t] /\ faults[t] \cap DeleteStepFaults = {})
        => /\ pc[t] = "done" /\ ret[t] = "raised"
           /\ DocChunks(Target(t), VideoIdOf(t)) = {}
           /\ existing[t] \cap collections[Target(t)] = {}
           /\ Range(batch[t]) \cap collections[Target(t)] = {}

\* the add of a re-indexing with a non-empty batch has raised, next to the
\* chunks of another document
C16_Witness ==
    \E t \in Threads :
        /\ IsIndex(t) /\ pc[t] = "done" /\ ret[t] = "raised"
        /\ faults[t] = {"add"}
        /\ existing[t] # {} /\ batch[t] # <<>>
        /\ collections[Target(t)] # {}

(***************************************************************************)
(* C17. Frame: every step of index_report(report) changes at most the       *)
(* chunks of report's video id in the reports collection, and every step of *)
(* index_transcript(id, ...) at most the chunks of id in the transcripts    *)
(* collection; the chunks of every other video id there, and the whole      *)
(* other collection, stay as they are.                                      *)
(***************************************************************************)
C17_IndexTouchesOnlyItsDocument ==
    [][\A t \in Threads :
          (IsIndex(t) /\ pc'[t] # pc[t])
          => /\ \A p \in Partitions \ {Target(t)} : collections'[p] = collections[p]
             /\ \A v \in VideoIds \ {VideoIdOf(t)} :
                   CollectionGet(collections'[Target(t)], v) = DocChunks(Target(t), v)
             /\ \A c \in collections'[Target(t)] : c.metadata.video_id \in VideoIds]_vars

\* a re-indexing that deleted and added chunks has returned while its
\* collection holds chunks of another document
C17_Witness ==
    \E t \in Threads :
        /\ IsIndex(t) /\ pc[t] = "done" /\ ret[t] = "ok"
        /\ existing[t] # {} /\ batch[t] # <<>>
        /\ \E c \in collections[Target(t)] : c.metadata.video_id # VideoIdOf(t)

(***************************************************************************)
(* C18. In every reachable state, for each video id and collection, the     *)
(* chunk_index values of the stored chunks are 0..n-1 for the n chunks      *)
(* stored, without gap or duplicate, and each lies within [0, total_chunks) *)
(* of its own metadata.                                                     *)
(***************************************************************************)
C18_ChunkIndexContiguous ==
    \A p \in Partitions, v \in VideoIds :
        /\ {c.metadata.chunk_index : c \in DocChunks(p, v)}
              = 0..(Cardinality(DocChunks(p, v)) - 1)
        /\ \A c \in DocChunks(p, v) :
              0 <= c.metadata.chunk_index
              /\ c.metadata.chunk_index < c.metadata.total_chunks

(***************************************************************************)
(* C19. Chunk ids are deterministic and unique per (video id, chunk index,  *)
(* total chunks): _generate_chunk_id gives different ids for different      *)
(* triples, also for video ids that contain '_chunk_' or '_of_'; every      *)
(* stored chunk carries the id of its own triple, no two chunks of a        *)
(* collection share an id, and a re-indexing with the same chunk count      *)
(* builds the ids the document had.                                         *)
(***************************************************************************)
\* video ids, some made of the separators of the id format, and numbers of
\* one and two digits
IdStrings ==
    VideoIds \cup {"v1_chunk_0_of_1", "v1_chunk_0", "v1_of_1", "v1_chunk_1_of_11",
                   "_chunk_", "_of_", ""}
IdNumbers == {0, 1, 2, 10, 11, 12}
IdTriples == IdStrings \X IdNumbers \X IdNumbers

IdOf(triple) == _generate_chunk_id(triple[1], triple[2], triple[3])

\* different triples get different ids: the triples have as many ids as
\* there are triples
IdsInjective == Cardinality({IdOf(triple) : triple \in IdTriples}) = Cardinality(IdTriples)

C19_ChunkIdsUnique ==
    /\ IdsInjective
    /\ \A p \in Partitions :
          /\ \A c \in collections[p] :
                c.id = _generate_chunk_id(c.metadata.video_id, c.metadata.chunk_index,
                                          c.metadata.total_chunks)
          /\ \A c, d \in collections[p] : c.id = d.id => c = d
    /\ \A t \in Threads :
          (/\ IsIndex(t) /\ pc[t] \in {"add_lock", "add"}
           /\ \A c \in existing[t] : c.metadata.total_chunks = Len(batch[t]))
          => Ids(existing[t]) \subseteq Ids(Range(batch[t]))

\* a re-indexing with the same chunk count has stored two chunks under the
\* ids the document had before
C19_Witness ==
    \E t \in Threads :
        /\ IsIndex(t) /\ pc[t] = "done" /\ ret[t] = "ok"
        /\ Cardinality(existing[t]) = 2 /\ Len(batch[t]) = 2
        /\ Ids(existing[t]) = Ids(DocChunks(Target(t), VideoIdOf(t)))

(***************************************************************************)
(* C20. reindex_all_data is a full rebuild: when it returns, each           *)
(* collection holds exactly the chunks of the documents of the data         *)
(* directory: for every report file the chunks of its report, for every     *)
(* transcript file the chunks of its text, and no other (older) chunk.      *)
(***************************************************************************)
IsReindex(t) == call[t].op = "reindex_all"

\* the texts of a set of chunks
Texts(chunks) == {c.document : c \in chunks}

\* the chunk texts the files of the data directory give a video id
ExpectedTexts(dir, p, v) ==
    IF p = "reports"
    THEN UNION {Range(split_text(combined_text(f.report))) :
                   f \in {x \in Range(dir.reports) : x.video_id = v}}
    ELSE UNION {Range(split_text(tr[2])) : tr \in TranscriptFiles(dir, v)}

C20_ReindexRebuildsEverything ==
    \A t \in Threads :
        (IsReindex(t) /\ pc[t] = "done")
        => \A p \in Partitions, v \in VideoIds :
              Texts(DocChunks(p, v)) = ExpectedTexts(call[t].dir, p, v)

(***************************************************************************)
(* C21: every optional field a report supplies is rendered into the indexed *)
(* text: after a report with key points has been indexed, by index_report   *)
(* called directly or by the report generator's                             *)
(* _index_report_in_vector_store, each of its key points occurs in the text *)
(* of some chunk stored under its video id in the reports collection.       *)
(***************************************************************************)
\* the report the caller supplied: the argument of index_report, or the
\* report handed to the report generator's glue
SuppliedReport(t) == IF Has(call[t], "supplied") THEN call[t].supplied ELSE call[t].report

\* the key points a report supplies, at top level or in its analysis
KeyPointsOf(report) == TopOrAnalysis(report, "key_points", <<>>)

C21_KeyPointsIndexed ==
    \A t \in Threads :
        (call[t].op = "index_report" /\ pc[t] = "done" /\ ret[t] = "ok") =>
            \A k \in Range(KeyPointsOf(SuppliedReport(t))) :
                \E c \in DocChunks("reports", VideoIdOf(t)) : Contains(c.document, k)

(***************************************************************************)
(* C22: every chunk the splitter produces and the store keeps has at most   *)
(* chunk_size characters; an empty text yields no chunk; a text shorter     *)
(* than the chunk size yields exactly one chunk.                            *)
(* As stated this fails for a text of white space only, which is shorter    *)
(* than the chunk size and yields no chunk.  What holds: a text shorter     *)
(* than the chunk size yields exactly one chunk, the text stripped of       *)
(* leading and trailing white space, unless nothing remains after           *)
(* stripping; then, as for the empty text, it yields no chunk.              *)
(***************************************************************************)
\* the index call of thread t has built its batch
BatchBuilt(t) == IsIndex(t) /\ pc[t] \in {"add_lock", "add"}

\* no chunk, built or stored, is longer than the chunk size
ChunksBounded ==
    /\ \A p \in Partitions : \A c \in collections[p] : Len(c.document) <= ChunkSize
    /\ \A t \in Threads : \A c \in Range(batch[t]) : Len(c.document) <= ChunkSize

C22_ShortTextOneChunk ==
    /\ ChunksBounded
    /\ \A t \in Threads :
          (BatchBuilt(t) /\ call[t].op = "index_transcript") =>
              LET text == call[t].transcript_text IN
              /\ text = "" => batch[t] = <<>>
              /\ (text # "" /\ Len(text) < ChunkSize) => Len(batch[t]) = 1

C22_ShortTextStripped ==
    /\ ChunksBounded
    /\ \A t \in Threads :
          (BatchBuilt(t) /\ call[t].op = "index_transcript") =>
              LET text == call[t].transcript_text IN
              /\ Strip(text) = "" => batch[t] = <<>>
              /\ (Strip(text) # "" /\ Len(text) < ChunkSize) =>
                     /\ Len(batch[t]) = 1
                     /\ batch[t][1].document = Strip(text)

\* a text longer than the chunk size has been cut and stored, and a padded
\* short text is about to be stored as one chunk
C22_Witness ==
    /\ \E c \in collections["transcripts"] : c.metadata.total_chunks >= 2
    /\ \E t \in Threads :
          /\ BatchBuilt(t) /\ call[t].op = "index_transcript"
          /\ Len(call[t].transcript_text) < ChunkSize
          /\ Strip(call[t].transcript_text) # call[t].transcript_text
          /\ Len(batch[t]) = 1

(***************************************************************************)
(* C23: get_context_for_query groups the retrieved chunks by video id: each *)
(* video with a retrieved chunk appears in exactly one 'Video:' block, and  *)
(* the blocks stand in the order of each video's best (lowest) distance,    *)
(* which is the order of first appearance in the distance-sorted list.      *)
(***************************************************************************)
\* the positions at which sub occurs in text
Occurrences(text, sub) ==
    {i \in 1..(Len(text) - Len(sub) + 1) : SubSeq(text, i, i + Len(sub) - 1) = sub}

\* the end of the 'Video: <title> (ID: <id>)' line of a video
IdMark(v) == " (ID: " \o v \o ")\n"

\* where the block of video v stands in the context (0: nowhere)
BlockPos(text, v) ==
    IF Occurrences(text, IdMark(v)) = {} THEN 0
    ELSE CHOOSE i \in Occurrences(text, IdMark(v)) :
             \A j \in Occurrences(text, IdMark(v)) : i <= j

VideosIn(rs) == {x.metadata.video_id : x \in Range(rs)}

\* the index of the first chunk of video v in the list
FirstIndex(rs, v) ==
    CHOOSE i \in 1..Len(rs) :
        /\ rs[i].metadata.video_id = v
        /\ \A j \in 1..(i - 1) : rs[j].metadata.video_id # v

\* the lowest distance of a chunk of video v in the list
Best(rs, v) ==
    CHOOSE d \in {x.distance : x \in {y \in Range(rs) : y.metadata.video_id = v}} :
        \A x \in Range(rs) : x.metadata.video_id = v => d <= x.distance

C23_OneBlockPerVideoInBestOrder ==
    \A t \in Threads :
        (IsContext(t) /\ pc[t] = "done" /\ ret[t] = "ok") =>
            /\ \A v \in VideoIds :
                  Cardinality(Occurrences(context[t], IdMark(v))) =
                      IF v \in VideosIn(results[t]) THEN 1 ELSE 0
            /\ \A v, w \in VideosIn(results[t]) :
                  BlockPos(context[t], v) < BlockPos(context[t], w) =>
                      /\ FirstIndex(results[t], v) < FirstIndex(results[t], w)
                      /\ Best(results[t], v) <= Best(results[t], w)

\* a context with two blocks, the block of v2 first because its best chunk is
\* nearer, and a video that has two retrieved chunks
C23_Witness ==
    \E t \in Threads :
        /\ IsContext(t) /\ pc[t] = "done" /\ ret[t] = "ok"
        /\ VideosIn(results[t]) = {"v1", "v2"}
        /\ BlockPos(context[t], "v2") < BlockPos(context[t], "v1")
        /\ Best(results[t], "v2") < Best(results[t], "v1")
        /\ \E i, j \in 1..Len(results[t]) :
              i # j /\ results[t][i].metadata.video_id = results[t][j].metadata.video_id

(***************************************************************************)
(* C24: the text index_report chunks is the present sections joined by a    *)
(* blank line, in the fixed order video title, channel, main topics, key    *)
(* points, important facts, technical details, examples and stories,        *)
(* important segments, detailed summary, overall summary; the section of an *)
(* absent field is left out without an error, and a report without          *)
(* 'analysis' is indexed as title (and channel) only.                       *)
(***************************************************************************)
\* the fields in the order of their sections
SectionOrder ==
    <<"video_title", "channel_title", "main_topics", "key_points", "important_facts",
      "technical_details", "examples_and_stories", "important_segments",
      "detailed_summary", "overall_summary">>

\* where a field is looked up: the report, or its analysis
Holder(report, f) ==
    IF f \in {"video_title", "channel_title"} THEN report
    ELSE GetOr(report, "analysis", EmptyDict)

\* the field has a section: it is there, and the list of technical details,
\* examples or segments is not empty
Present(report, f) ==
    /\ Has(Holder(report, f), f)
    /\ f \in {"technical_details", "examples_and_stories", "important_segments"}
          => Holder(report, f)[f] # <<>>

SectionLabel(f) ==
    CASE f = "video_title" -> "Video title: "
      [] f = "channel_title" -> "Channel: "
      [] f = "main_topics" -> "Main topics: "
      [] f = "key_points" -> "Key points:\n"
      [] f = "important_facts" -> "Important facts:\n"
      [] f = "technical_details" -> "Technical details:\n"
      [] f = "examples_and_stories" -> "Examples and stories:\n"
      [] f = "important_segments" -> "Important segments:\n"
      [] f = "detailed_summary" -> "Detailed summary: "
      [] f = "overall_summary" -> "Overall summary: "

\* the section of a field: its label and its value, a list as comma-separated
\* topics or as one '- ' line per item
Section(report, f) ==
    LET value == Holder(report, f)[f] IN
    SectionLabel(f) \o
        (IF f \in {"video_title", "channel_title", "detailed_summary", "overall_summary"}
         THEN value
         ELSE IF f = "main_topics" THEN JoinStr(value, ", ")
         ELSE JoinStr(Bullets(value), "\n"))

ExpectedText(report) ==
    LET present == SelectSeq(SectionOrder, LAMBDA f : Present(report, f))
    IN JoinStr([i \in 1..Len(present) |-> Section(report, present[i])], "\n\n")

C24_SectionsInFixedOrder ==
    \A t \in Threads :
        (call[t].op = "index_report" /\ ~Malformed(call[t].report)) =>
            LET report == call[t].report IN
            /\ combined_text(report) = ExpectedText(report)
            /\ BatchBuilt(t) =>
                  [i \in 1..Len(batch[t]) |-> batch[t][i].document]
                      = split_text(ExpectedText(report))
            /\ (pc[t] = "done" /\ ret[t] = "ok") =>
                  Texts(DocChunks("reports", report.video_id))
                      = Range(split_text(ExpectedText(report)))
            /\ (pc[t] = "done" /\ ~Has(report, "analysis")) => ret[t] = "ok"

\* a report with all ten sections has been indexed, and so has a report with
\* a channel and no analysis
C24_Witness ==
    /\ \E t \in Threads :
          /\ call[t].op = "index_report" /\ pc[t] = "done" /\ ret[t] = "ok"
          /\ \A i \in 1..Len(SectionOrder) : Present(call[t].report, SectionOrder[i])
    /\ \E c \in collections["reports"] :
          c.document = "Video title: U\n\nChannel: C"

(***************************************************************************)
(* C25: the ensure-indexed step of the QA agent is idempotent.              *)
(* _ensure_report_indexed / _ensure_transcript_indexed call index_report /  *)
(* index_transcript exactly when a retrieval filtered to that video id and  *)
(* partition returns nothing, which is when the document has no chunk       *)
(* there; when the document has chunks the partition is left unchanged;     *)
(* and when the step returns, the document has at least one chunk in that   *)
(* partition.  (For calls that no other call overlaps.)                     *)
(***************************************************************************)
\* the call was made by, or is, an ensure-indexed step
FromEnsure(c) == c.op \in EnsureOps \/ Has(c, "ensure")

\* the partition and the video id an ensure-indexed step is about
EnsurePart(c) == IF c.op \in {"ensure_report", "index_report"} THEN "reports"
                 ELSE "transcripts"
EnsureVideo(c) == IF Has(c, "report") THEN c.report.video_id ELSE c.video_id

C25_EnsureIndexedIdempotent ==
    [][\A t \in Threads :
          LET p == EnsurePart(call[t])
              v == EnsureVideo(call[t])
          IN /\ (pc[t] = "ensure" /\ pc'[t] # "ensure") =>
                   /\ (results[t] = <<>>) <=> (DocChunks(p, v) = {})
                   /\ (results[t] = <<>>) <=>
                          (call'[t].op \in {"index_report", "index_transcript"})
                   /\ results[t] # <<>> =>
                          /\ collections' = collections
                          /\ pc'[t] = "done" /\ ret'[t] = "ok"
             /\ (FromEnsure(call[t]) /\ pc[t] # "done" /\ pc'[t] = "done"
                 /\ ret'[t] = "ok") =>
                   {c \in collections'[p] : c.metadata.video_id = v} # {}
      ]_vars

\* an ensure-indexed step has returned without indexing: the document was
\* indexed before
C25_Witness ==
    \E t \in Threads :
        /\ call[t].op \in EnsureOps /\ pc[t] = "done" /\ ret[t] = "ok"
        /\ results[t] # <<>>
        /\ DocChunks(EnsurePart(call[t]), EnsureVideo(call[t])) # {}

(***************************************************************************)
(* C26: when the text of a document yields no chunk (an empty transcript),  *)
(* the index call completes without error and leaves the document with no   *)
(* chunk; it does not hand an empty batch to the add call of the backend     *)
(* after the delete step.                                                   *)
(***************************************************************************)
C26_EmptyBatchNotAdded ==
    \A t \in Threads :
        (/\ IsIndex(t)
         /\ call[t].op = "index_report" => ~Malformed(call[t].report)
         /\ PreparedBatch(t) = <<>>) =>
            /\ pc[t] # "add"
            /\ pc[t] = "done" =>
                  /\ ret[t] = "ok"
                  /\ DocChunks(Target(t), VideoIdOf(t)) = {}

(***************************************************************************)
(* C28: after reindex_all_data every transcript chunk carries as            *)
(* video_title the title of the report file with the same video id: when    *)
(* loading or indexing one report file fails, its transcript is not indexed *)
(* under the title of a report loaded in an earlier iteration.              *)
(***************************************************************************)
\* the report files of the directory for a video id
ReportFiles(dir, v) == {f \in Range(dir.reports) : f.video_id = v}

\* the titles of the report files of other videos
OtherTitles(dir, v) ==
    {TitleOrUnknown(f.report) :
        f \in {g \in Range(dir.reports) : Readable(g) /\ g.video_id # v}}

C28_TranscriptTitleFromOwnReport ==
    \A t \in Threads :
        (IsReindex(t) /\ pc[t] = "done") =>
            \A c \in collections["transcripts"] :
                \A f \in ReportFiles(call[t].dir, c.metadata.video_id) :
                    IF Readable(f)
                    THEN c.metadata.video_title = TitleOrUnknown(f.report)
                    ELSE c.metadata.video_title
                             \notin OtherTitles(call[t].dir, c.metadata.video_id)

(***************************************************************************)
(* C29: a failed rebuild is reported as a failure: when the clearing fails  *)
(* (and the recreation fails too) or a document cannot be indexed during    *)
(* reindex_all_data, the error reaches main.reindex_all_data, which returns *)
(* 1 and does not print the success message.                                *)
(***************************************************************************)
C29_FailedRebuildReported ==
    \A t \in Threads :
        (IsReindex(t) /\ pc[t] = "done" /\ call[t].failed) =>
            /\ MainExit(ret[t]) = 1
            /\ ~MainPrintsSuccess(ret[t])

(***************************************************************************)
(* C27: the lock of a VectorStore is never held by a thread that tries to   *)
(* acquire it again, and it is released on every exit path of every         *)
(* operation (normal return, exception, early return inside the clearing    *)
(* block of reindex_all_data), so concurrent index, retrieve and reindex    *)
(* calls on one VectorStore cannot deadlock and each eventually completes.  *)
(***************************************************************************)
\* the thread is inside a "with self.lock:" block
InLockScope(t) == InBackend(t) \/ pc[t] = "clear"

\* the thread is at a "with self.lock:" statement
AtAcquire(t) == Waiting(t) \/ pc[t] = "clear_lock"

\* the thread is inside a call
Running(t) == pc[t] \notin {"idle", "done"}

\* the lock is held only inside a with block, on the instance of the call
HeldOnlyInScope ==
    \A s \in Stores, t \in Threads :
        lock[s] = t => InLockScope(t) /\ call[t].vs = s

\* no thread reaches a with statement holding the lock
NeverReacquired ==
    \A s \in Stores, t \in Threads : AtAcquire(t) => lock[s] # t

C27_LockReleasedAndCallsComplete ==
    /\ [](HeldOnlyInScope /\ NeverReacquired)
    /\ \A t \in Threads : [](Running(t) => <>(pc[t] = "done"))

\* reindex_all_data has returned from inside its clearing block while the
\* other thread waits at a with statement for the lock, which is free
C27_Witness ==
    \E t \in Threads, u \in Threads :
        /\ IsReindex(t) /\ pc[t] = "done" /\ "recreate" \in faults[t]
        /\ AtAcquire(u)
        /\ lock[call[u].vs] = NoThread

(***************************************************************************)
(* C30: the analyzed-videos cache never makes a failure permanent: the      *)
(* 'Analysis failed' report that analyze_transcript produces after an API   *)
(* or JSON-parsing error is not returned for later analyze_transcript calls *)
(* for the same video id in the same process; a later call attempts the     *)
(* analysis again.                                                          *)
(***************************************************************************)
\* the report of a failed analysis
IsFallback(report) ==
    Has(report, "main_topics") /\ report.main_topics = <<"Analysis failed">>

\* the thread runs a ReportGenerator and is between two analyze_transcript calls
IsGenerator(t) == call[t].op = "generator" /\ pc[t] = "generate"

C30_FailureNotServedFromCache ==
    \A t \in Threads :
        (IsGenerator(t) /\ call[t].source = "cache") =>
            ~IsFallback(call[t].returned)
====
